---- MODULE Spec2Model ----
(***************************************************************************)
(* Recipe-to-package elaboration of Bob (pym/bob/input.py).                *)
(*                                                                         *)
(* The model follows Recipe.prepare step by step with an explicit call     *)
(* stack (one frame per active prepare call), the per-recipe memoization   *)
(* list of PackageMatchers and the Result-Id table, the digest protocol    *)
(* of CoreStep.getDigest / getResultId and Recipe.resolveClasses.          *)
(*                                                                         *)
(* Conventions                                                             *)
(*   - Python None for strings is the string None below; an optional       *)
(*     object is a sequence of length 0 (None) or 1.                       *)
(*   - A Python dict is a sequence of <<key, value>> pairs in insertion    *)
(*     order with unique keys.                                             *)
(*   - Byte strings are strings; struct.pack is a textual length field;    *)
(*     SHA1 is modelled injective (the digest shows its pre-image).  A     *)
(*     digest value is the sequence of its 20-byte blocks.                 *)
(*   - A value with substitutions is a template [lit, var] standing for    *)
(*     the text  lit$var  (var = "" when the text has no variable).        *)
(*   - No plugin is loaded: the plugin states of prepare are empty.        *)
(***************************************************************************)
EXTENDS Integers, Sequences, FiniteSets, TLC

VARIABLES
    recipeSet,            \* RecipeSet: recipes, classes, policies
    sandboxEnabled,       \* argument of generatePackages
    DEBUG,                \* bob.DEBUG: [pkgck |-> BOOLEAN]
    files,                \* the YAML documents of the recipes and classes on disk
    warnDepends,          \* the "package -> dependency" texts shown by warnDepends
    packageCache,         \* the file .bob-packages.pickle: <<>> or <<[cacheKey, result]>>
    rootPackage,          \* what __generatePackages returned: <<>> or <<Package>>
    corePackagesByMatch,  \* Recipe.__corePackagesByMatch, per recipe name
    corePackagesById,     \* Recipe.__corePackagesById, per recipe name
    corePackages,         \* the CorePackage objects that were returned, by pkgId
    uidGen,               \* __uidGen.cur
    frames,               \* the active prepare calls, outermost first
    ret,                  \* value returned by the prepare call that just ended
    status,               \* [state, msg]: where the run is and how it ended
    buildRun              \* commonBuildDevelop: its locals, its position and the
                          \* calls it made

recipeVars == <<recipeSet, sandboxEnabled, DEBUG, files, warnDepends, packageCache,
                rootPackage, corePackagesByMatch, corePackagesById, corePackages,
                uidGen, frames, ret, status>>

vars == <<recipeVars, buildRun>>

-----------------------------------------------------------------------------
(* Python values *)

None == "<None>"
True == "<True>"
False == "<False>"

\* Number of env values and repetitions the recipe families below range over.
NumVals == 2
MaxDup == 2

\* A template without / with a variable reference.
Lit(text) == [lit |-> text, var |-> ""]
Var(name) == [lit |-> "", var |-> name]
NoTemplate == [lit |-> None, var |-> ""]

\* a key that the YAML document does not have
Absent == [lit |-> "<absent>", var |-> ""]

RECURSIVE joinList(_, _)
joinList(l, glue) ==
    IF l = <<>> THEN ""
    ELSE IF Len(l) = 1 THEN l[1]
    ELSE l[1] \o glue \o joinList(Tail(l), glue)

KeepScript(s) == s # None /\ s # ""

joinScripts(scripts, glue) ==
    LET s == SelectSeq(scripts, KeepScript)
    IN  IF s = <<>> THEN None ELSE joinList(s, glue)

-----------------------------------------------------------------------------
(* dict *)

keys(d) == { d[i][1] : i \in DOMAIN d }

has(d, k) == k \in keys(d)

get(d, k) == IF has(d, k) THEN d[CHOOSE i \in DOMAIN d : d[i][1] = k][2] ELSE None

getitem(d, k) == d[CHOOSE i \in DOMAIN d : d[i][1] = k][2]

set(d, k, v) ==
    IF has(d, k)
    THEN [ i \in DOMAIN d |-> IF d[i][1] = k THEN <<k, v>> ELSE d[i] ]
    ELSE Append(d, <<k, v>>)

RECURSIVE update(_, _)
update(d, other) ==
    IF other = <<>> THEN d
    ELSE update(set(d, other[1][1], other[1][2]), Tail(other))

\* Names in the order Python sorts them (code points).
NameOrder == <<"A", "B", "BOB_PACKAGE_NAME", "BOB_RECIPE_NAME", "C", "CC", "DIR",
              "J", "K", "LIB_PATH", "W", "X", "Y", "a", "app", "b", "base", "c", "cc", "compiler",
              "cons", "dep", "fp", "fpr", "hello", "k", "kid", "ld", "leaf", "lib", "m1", "m2", "mid", "nb", "obj", "obj2",
              "p1", "p2", "par", "part", "q", "r", "sbx", "shr", "tcc", "tcc2", "tld", "top", "u1", "u2", "user">>

Rank(k) == CHOOSE i \in DOMAIN NameOrder : NameOrder[i] = k

\* the entries of a dict in insertion order
unsorted(d) == d

RECURSIVE insertSorted(_, _)
insertSorted(it, s) ==
    IF s = <<>> THEN <<it>>
    ELSE IF Rank(it[1]) < Rank(s[1][1]) THEN <<it>> \o s
    ELSE <<s[1]>> \o insertSorted(it, Tail(s))

RECURSIVE sorted(_)
sorted(d) == IF d = <<>> THEN <<>> ELSE insertSorted(d[1], sorted(Tail(d)))

-----------------------------------------------------------------------------
(* Env (stringparser.Env): data is a dict; the touched sets live in the     *)
(* frames of the call stack                                                 *)

prune(env, allowed) == SelectSeq(env, LAMBDA kv : kv[1] \in allowed)

\* env.substitute(template): [ok, val, touched]
substitute(env, t) ==
    [ ok      |-> t.var = "" \/ has(env, t.var),
      val     |-> IF t.var = "" THEN t.lit ELSE t.lit \o get(env, t.var),
      touched |-> IF t.var = "" THEN {} ELSE {t.var} ]

isFalse(val) == val \in {"", "0", "false"}

\* env.evaluate(condition): [ok, val, touched]
evaluate(env, cond) ==
    IF cond.lit = None
    THEN [ ok |-> TRUE, val |-> TRUE, touched |-> {} ]
    ELSE LET s == substitute(env, cond)
         IN  [ ok |-> s.ok, val |-> s.ok /\ ~isFalse(s.val), touched |-> s.touched ]

\* { key : env.substitute(value) for key, value in d.items() }: [ok, val, touched]
RECURSIVE substituteAll(_, _)
substituteAll(env, d) ==
    IF d = <<>> THEN [ ok |-> TRUE, val |-> <<>>, touched |-> {} ]
    ELSE LET s == substitute(env, d[1][2])
             r == substituteAll(env, Tail(d))
         IN  [ ok      |-> s.ok /\ r.ok,
               val     |-> <<<<d[1][1], s.val>>>> \o r.val,
               touched |-> s.touched \cup r.touched ]

-----------------------------------------------------------------------------
(* DigestHasher *)

SHA1_SIZE == 20

packI(n) == "<" \o ToString(n) \o ">"

sha1(bytes) == "sha1[" \o bytes \o "]"

Zeros(n) == "0x00*" \o ToString(n)

DigestHasher == [ recipes |-> "", host |-> "" ]

hUpdate(h, real) == [ h EXCEPT !.recipes = @ \o real ]

hFingerprint(h, imag) == [ h EXCEPT !.host = @ \o imag ]

digest(h) ==
    IF h.host # "" THEN <<sha1(h.recipes), sha1(h.host)>> ELSE <<sha1(h.recipes)>>

sliceRecipes(d) == d[1]

\* a digest value without host part
noHost(d) == ""

sliceHost(d) == IF Len(d) > 1 THEN d[2] ELSE ""

\* the bytes of a digest value, and their number
bytesOf(d) == joinList(d, "")

byteLen(d) == SHA1_SIZE * Len(d)

-----------------------------------------------------------------------------
(* CoreRef, CoreStep, CorePackage *)

Inherit == [ kind |-> "inherit", ref |-> <<>> ]
Clear == [ kind |-> "clear", ref |-> <<>> ]
Replace(ref) == [ kind |-> "replace", ref |-> <<ref>> ]

\* destination: label is "src", "build", "dist" (a step of package pkgId),
\* "tool" (provided tool `name` of pkgId) or "sandbox" (provided sandbox)
Dest(label, pkgId, name) == [ label |-> label, pkgId |-> pkgId, name |-> name ]

CoreRef(destination, stackAdd, diffTools, diffSandbox) ==
    [ destination |-> destination, stackAdd |-> stackAdd,
      diffTools |-> diffTools, diffSandbox |-> diffSandbox ]

recipeOf(p) == recipeSet.recipes[p.recipe]

\* the CorePackage a reference made while `p` is constructed points into
pkgOf(pkgId, p) == IF pkgId = p.pkgId THEN p ELSE corePackages[pkgId]

\* a destination is a CoreItem (Dest) or another CoreRef
isItem(d) == "label" \in DOMAIN d

RECURSIVE destOf(_)
destOf(ref) == IF isItem(ref.destination) THEN ref.destination
               ELSE destOf(ref.destination)

\* CoreRef.refGetDestination for a reference to a step
refGetDestination(ref, p) ==
    LET d == destOf(ref)
        pkg == pkgOf(d.pkgId, p)
    IN  CASE d.label = "src" -> pkg.checkoutStep
          [] d.label = "build" -> pkg.buildStep
          [] OTHER -> pkg.packageStep

\* CoreRef.refGetStack
RECURSIVE refGetStack(_)
refGetStack(ref) ==
    ref.stackAdd \o (IF isItem(ref.destination) THEN <<>>
                     ELSE refGetStack(ref.destination))

\* tool.coreStep / sandbox.coreStep: the package step of the providing package
coreStepOf(pkgId, p) == pkgOf(pkgId, p).packageStep

isFingerprinted(p, step) == step.label # "src" /\ p.fingerprintMask # 0

_getToolKeys(p, step) ==
    CASE step.label = "src" -> recipeOf(p).toolDepCheckout
      [] step.label = "build" -> recipeOf(p).toolDepBuild
      [] OTHER -> recipeOf(p).toolDepPackage

getTools(p, step) ==
    IF step.isValid
    THEN SelectSeq(p.tools, LAMBDA nt : nt[1] \in _getToolKeys(p, step))
    ELSE <<>>

getSandbox(p, step, forceSandbox) ==
    LET force == forceSandbox /\ ~recipeSet.policies.sandboxInvariant
    IN  IF p.sandbox # <<>> /\ (p.sandbox[1].enabled \/ force) /\ step.isValid
        THEN p.sandbox ELSE <<>>

getDigestScript(p, step) ==
    CASE step.label = "src" ->
             IF step.isValid
             THEN joinList([ i \in DOMAIN step.scmList |-> step.scmList[i].digestScript ]
                           \o <<IF recipeOf(p).checkout[2] = None THEN ""
                                ELSE recipeOf(p).checkout[2]>>
                           \o recipeOf(p).checkout[4], "\n")
             ELSE None
      [] step.label = "build" -> recipeOf(p).build[2]
      [] OTHER -> recipeOf(p).package[2]

RECURSIVE listBytes(_)
listBytes(l) ==
    IF l = <<>> THEN "" ELSE packI(Len(l[1])) \o l[1] \o listBytes(Tail(l))

RECURSIVE toolTableBytes(_, _)
toolTableBytes(tools, p) ==
    IF tools = <<>> THEN ""
    ELSE LET tool == tools[1][2]
         IN  sliceRecipes(coreStepOf(tool.coreStep, p).variantId)
             \o packI(Len(tool.path)) \o packI(Len(tool.libs))
             \o tool.path \o listBytes(tool.libs)
             \o toolTableBytes(Tail(tools), p)

RECURSIVE envBytes(_)
envBytes(d) ==
    IF d = <<>> THEN ""
    ELSE packI(Len(d[1][1])) \o packI(Len(d[1][2])) \o d[1][1] \o d[1][2]
         \o envBytes(Tail(d))

RECURSIVE argsDigest(_, _)
argsDigest(h, args) ==
    IF args = <<>> THEN h
    ELSE argsDigest(hFingerprint(hUpdate(h, sliceRecipes(args[1].variantId)),
                                 sliceHost(args[1].variantId)),
                    Tail(args))

\* CoreStep.getDigest(lambda coreStep: coreStep.variantId)
getDigest(p, step) ==
    LET h0 == IF isFingerprinted(p, step) /\ getSandbox(p, step, FALSE) # <<>>
              THEN hFingerprint(DigestHasher, sliceRecipes(
                       coreStepOf(getSandbox(p, step, FALSE)[1].coreStep, p).variantId))
              ELSE DigestHasher
        sandbox == IF recipeSet.policies.sandboxInvariant THEN <<>>
                   ELSE getSandbox(p, step, FALSE)
        h1 == IF sandbox # <<>>
              THEN hUpdate(h0, sliceRecipes(coreStepOf(sandbox[1].coreStep, p).variantId)
                               \o packI(Len(sandbox[1].paths))
                               \o listBytes(sandbox[1].paths))
              ELSE hUpdate(h0, Zeros(20))
        script == getDigestScript(p, step)
        h2 == IF script # None /\ script # ""
              THEN hUpdate(h1, packI(Len(script)) \o script)
              ELSE hUpdate(h1, Zeros(4))
        tools == getTools(p, step)
        h3 == hUpdate(h2, packI(Len(tools)) \o toolTableBytes(sorted(tools), p))
        h4 == hUpdate(h3, packI(Len(step.digestEnv)) \o envBytes(sorted(step.digestEnv)))
        dests == [ i \in DOMAIN step.args |-> refGetDestination(step.args[i], p) ]
        args == SelectSeq(dests, LAMBDA a : a.isValid)
        h5 == argsDigest(hUpdate(h4, packI(Len(args))), args)
    IN  digest(h5)

RECURSIVE providedToolsBytes(_, _)
providedToolsBytes(tools, p) ==
    IF tools = <<>> THEN ""
    ELSE LET name == tools[1][1]
             tool == tools[1][2]
         IN  bytesOf(coreStepOf(tool.coreStep, p).variantId)
             \o packI(Len(name)) \o packI(Len(tool.path)) \o packI(Len(tool.libs))
             \o name \o tool.path \o listBytes(tool.libs)
             \o (IF tool.netAccess THEN "1" ELSE "0") \o packI(Len(tool.environment))
             \o envBytes(sorted(tool.environment))
             \o packI(Len(tool.fingerprintScript)) \o tool.fingerprintScript
             \o providedToolsBytes(Tail(tools), p)

RECURSIVE providedDepsBytes(_, _)
providedDepsBytes(deps, p) ==
    IF deps = <<>> THEN ""
    ELSE bytesOf(refGetDestination(deps[1], p).variantId)
         \o providedDepsBytes(Tail(deps), p)

RECURSIVE mountsBytes(_)
mountsBytes(m) ==
    IF m = <<>> THEN ""
    ELSE packI(Len(m[1][1])) \o packI(Len(m[1][2])) \o packI(Len(m[1][3]))
         \o m[1][1] \o m[1][2] \o joinList(m[1][3], "") \o mountsBytes(Tail(m))

\* CoreStep.getResultId
getResultId(p, step) ==
    sha1( bytesOf(step.variantId)
          \o packI(Len(step.providedEnv)) \o envBytes(sorted(step.providedEnv))
          \o packI(Len(step.providedTools))
          \o providedToolsBytes(sorted(step.providedTools), p)
          \o packI(Len(step.providedDeps)) \o providedDepsBytes(step.providedDeps, p)
          \o (IF step.providedSandbox # <<>>
              THEN LET sbx == step.providedSandbox[1]
                   IN  bytesOf(coreStepOf(sbx.coreStep, p).variantId)
                       \o packI(Len(sbx.paths)) \o listBytes(sbx.paths)
                       \o packI(Len(sbx.mounts)) \o mountsBytes(sbx.mounts)
                       \o packI(Len(sbx.environment)) \o envBytes(sorted(sbx.environment))
              ELSE Zeros(20)) )

-----------------------------------------------------------------------------
(* Recipe: construction from the parsed YAML and class resolution *)

\* Recipe.Dependency.__init__
Dependency(recipe, env, fwd, use, cond) ==
    [ recipe |-> recipe, envOverride |-> env, provideGlobal |-> fwd, use |-> use,
      useEnv |-> "environment" \in use, useTools |-> "tools" \in use,
      useBuildResult |-> "result" \in use, useDeps |-> "deps" \in use,
      useSandbox |-> "sandbox" \in use, condition |-> cond ]

\* a dependency given by its name only (the defaults of parseEntries)
Dep(name) == Dependency(name, <<>>, FALSE, {"result", "deps"}, NoTemplate)

\* AbstractTool.__init__ for a tool given as a path string
AbstractTool(path) ==
    [ path |-> path, libs |-> <<>>, netAccess |-> FALSE, environment |-> <<>>,
      fingerprintScript |-> "", fingerprintIf |-> Lit(False) ]

\* IncludeHelper.resolve for a script without includes: (script, digest script)
resolve(text, sourceName) ==
    IF text = None THEN <<None, None>>
    ELSE <<"_BOB_SOURCES[$LINENO]=" \o sourceName \o "\n" \o text, sha1(text)>>

\* The keys of a recipe or class YAML document; None / empty when absent.
Yaml ==
    [ name |-> "", inherit |-> <<>>, depends |-> <<>>, root |-> None, shared |-> None,
      environment |-> <<>>, privateEnvironment |-> <<>>, metaEnvironment |-> <<>>,
      checkoutScript |-> None, buildScript |-> None, packageScript |-> None,
      checkoutSCM |-> <<>>, checkoutAssert |-> <<>>, checkoutDeterministic |-> None,
      checkoutVars |-> {}, buildVars |-> {}, packageVars |-> {},
      checkoutVarsWeak |-> {}, buildVarsWeak |-> {}, packageVarsWeak |-> {},
      checkoutTools |-> {}, buildTools |-> {}, packageTools |-> {},
      provideVars |-> <<>>, provideTools |-> <<>>, provideDeps |-> {},
      provideSandbox |-> <<>>, fingerprintScript |-> None, fingerprintIf |-> Absent,
      filterEnv |-> <<>>, filterTools |-> <<>>, filterSandbox |-> <<>>,
      multiPackage |-> <<>> ]

\* Recipe.__init__; anonBaseClass is <<>> or holds the anonymous base class
Recipe(recipe, isRecipe, anonBaseClass) ==
    LET sourceName == (IF isRecipe THEN "Recipe " ELSE "Class  ") \o recipe.name
        checkoutScript == resolve(recipe.checkoutScript, sourceName)
        fingerprintIf == IF recipe.fingerprintIf # Absent THEN recipe.fingerprintIf
                         ELSE IF recipe.fingerprintScript # None
                                 /\ recipe.fingerprintScript # ""
                              THEN NoTemplate ELSE Lit(False)
    IN  [ packageName |-> recipe.name,
          baseName |-> recipe.name,
          anonBaseClass |-> anonBaseClass,
          classesResolved |-> FALSE,
          inherit |-> recipe.inherit,
          deps |-> recipe.depends,
          filterEnv |-> recipe.filterEnv,
          filterTools |-> recipe.filterTools,
          filterSandbox |-> recipe.filterSandbox,
          root |-> recipe.root,
          provideTools |-> recipe.provideTools,
          provideVars |-> recipe.provideVars,
          provideDeps |-> recipe.provideDeps,
          provideSandbox |-> recipe.provideSandbox,
          varSelf |-> recipe.environment,
          varPrivate |-> recipe.privateEnvironment,
          metaEnv |-> recipe.metaEnvironment,
          checkoutVars |-> recipe.checkoutVars,
          checkoutVarsWeak |-> recipe.checkoutVarsWeak,
          buildVars |-> recipe.buildVars \cup recipe.checkoutVars,
          buildVarsWeak |-> recipe.buildVarsWeak \cup recipe.checkoutVarsWeak,
          packageVars |-> recipe.packageVars \cup recipe.buildVars
                          \cup recipe.checkoutVars,
          packageVarsWeak |-> recipe.packageVarsWeak \cup recipe.buildVarsWeak
                              \cup recipe.checkoutVarsWeak,
          toolDepCheckout |-> recipe.checkoutTools,
          toolDepBuild |-> recipe.buildTools \cup recipe.checkoutTools,
          toolDepPackage |-> recipe.packageTools \cup recipe.buildTools
                             \cup recipe.checkoutTools,
          shared |-> recipe.shared,
          checkout |-> <<checkoutScript[1], checkoutScript[2],
                         recipe.checkoutSCM, recipe.checkoutAssert>>,
          build |-> resolve(recipe.buildScript, sourceName),
          package |-> resolve(recipe.packageScript, sourceName),
          fingerprintScripts |-> IF fingerprintIf # Lit(False)
                                 THEN <<recipe.fingerprintScript>> ELSE <<>>,
          fingerprintIf |-> IF fingerprintIf # Lit(False) THEN <<fingerprintIf>>
                            ELSE <<>>,
          checkoutDeterministic |-> IF recipe.checkoutDeterministic # None
                                    THEN recipe.checkoutDeterministic = True
                                    ELSE checkoutScript[1] = None ]

\* collect of Recipe.loadFromFile for one package of a file: the document is
\* that of the package, its key multiPackage is <<>> or holds the document of
\* the enclosing multiPackage level, which becomes the anonymous base class
collect(recipe, isRecipe) ==
    Recipe(recipe, isRecipe,
           IF recipe.multiPackage = <<>> THEN <<>>
           ELSE <<Recipe(recipe.multiPackage[1], isRecipe, <<>>)>>)

\* RecipeSet.getClass: [ok, cls]
getClass(rs, className) ==
    [ ok |-> className \in DOMAIN rs.classes,
      cls |-> IF className \in DOMAIN rs.classes THEN rs.classes[className]
              ELSE Recipe(Yaml, FALSE, <<>>) ]

\* a class that is listed wherever it is met
inheritedAgain(clsName, visited) == TRUE

\* "classes are inherited only once"
inheritedOnce(clsName, visited) == clsName \notin visited

\* Recipe.__resolveClassesOrder: [ok, ret, visited]; ret lists classes
RECURSIVE resolveClassesOrder(_, _, _, _, _)
RECURSIVE resolveClassesOrderList(_, _, _, _)
resolveClassesOrder(rs, cls, stack, visited, isRecipe) ==
    LET clsName == IF isRecipe THEN "<recipe>" ELSE cls.packageName
    IN  IF clsName \in { stack[i] : i \in DOMAIN stack }
        THEN [ ok |-> FALSE, ret |-> <<>>, visited |-> visited ]
        ELSE LET visit(sub) ==
                     IF ~sub.ok THEN sub
                     ELSE IF inheritedOnce(clsName, sub.visited) /\ ~isRecipe
                     THEN [ ok |-> TRUE, ret |-> Append(sub.ret, cls),
                            visited |-> sub.visited \cup {clsName} ]
                     ELSE sub
                 named(anon) ==
                     IF ~anon.ok THEN anon
                     ELSE [ resolveClassesOrderList(rs, cls.inherit,
                                Append(stack, clsName), anon.visited)
                            EXCEPT !.ret = anon.ret \o @ ]
             IN  visit(named(IF cls.anonBaseClass # <<>>
                             THEN resolveClassesOrder(rs, cls.anonBaseClass[1],
                                      Append(stack, clsName), visited, FALSE)
                             ELSE [ ok |-> TRUE, ret |-> <<>>, visited |-> visited ]))

resolveClassesOrderList(rs, subInherit, stack, visited) ==
    IF subInherit = <<>> THEN [ ok |-> TRUE, ret |-> <<>>, visited |-> visited ]
    ELSE LET c == getClass(rs, subInherit[1])
             extend(first, rest) ==
                 [ ok |-> rest.ok, ret |-> first.ret \o rest.ret,
                   visited |-> rest.visited ]
             continue(first) ==
                 IF ~first.ok THEN first
                 ELSE extend(first, resolveClassesOrderList(rs, Tail(subInherit), stack,
                                                            first.visited))
         IN  continue(IF c.ok
                      THEN resolveClassesOrder(rs, c.cls, stack, visited, FALSE)
                      ELSE [ ok |-> FALSE, ret |-> <<>>, visited |-> visited ])

reverse(s) == [ i \in DOMAIN s |-> s[Len(s) + 1 - i] ]

firstNotNone(a, b) == IF a = None THEN b ELSE a

\* a recipe that keeps its own checkoutDeterministic
keepDeterministic(own, inherited) == own

\* self.__checkoutDeterministic and cls.__checkoutDeterministic
mergeDeterministic(own, inherited) == own /\ inherited

\* one round of the "inherit classes" loop of Recipe.resolveClasses
inheritClass(self, cls, mergeEnvironment) ==
    [ self EXCEPT
        !.deps = cls.deps \o self.deps,
        !.filterEnv = IF @ = <<>> THEN cls.filterEnv
                      ELSE IF cls.filterEnv = <<>> THEN @
                      ELSE <<@[1] \o cls.filterEnv[1]>>,
        !.filterTools = IF @ = <<>> THEN cls.filterTools
                        ELSE IF cls.filterTools = <<>> THEN @
                        ELSE <<@[1] \o cls.filterTools[1]>>,
        !.filterSandbox = IF @ = <<>> THEN cls.filterSandbox
                          ELSE IF cls.filterSandbox = <<>> THEN @
                          ELSE <<@[1] \o cls.filterSandbox[1]>>,
        !.root = firstNotNone(@, cls.root),
        !.shared = firstNotNone(@, cls.shared),
        !.provideTools = update(cls.provideTools, @),
        !.provideVars = update(cls.provideVars, @),
        !.provideDeps = @ \cup cls.provideDeps,
        !.provideSandbox = IF @ = <<>> THEN cls.provideSandbox ELSE @,
        !.varSelf = IF mergeEnvironment
                    THEN (IF cls.varSelf # <<>> THEN <<cls.varSelf>> \o @ ELSE @)
                    ELSE update(cls.varSelf, @),
        !.varPrivate = IF mergeEnvironment
                       THEN (IF cls.varPrivate # <<>> THEN <<cls.varPrivate>> \o @ ELSE @)
                       ELSE update(cls.varPrivate, @),
        !.checkoutVars = @ \cup cls.checkoutVars,
        !.metaEnv = update(cls.metaEnv, @),
        !.checkoutVarsWeak = @ \cup cls.checkoutVarsWeak,
        !.buildVars = @ \cup cls.buildVars,
        !.buildVarsWeak = @ \cup cls.buildVarsWeak,
        !.packageVars = @ \cup cls.packageVars,
        !.packageVarsWeak = @ \cup cls.packageVarsWeak,
        !.toolDepCheckout = @ \cup cls.toolDepCheckout,
        !.toolDepBuild = @ \cup cls.toolDepBuild,
        !.toolDepPackage = @ \cup cls.toolDepPackage,
        !.checkoutDeterministic = mergeDeterministic(@, cls.checkoutDeterministic),
        !.checkout = <<joinScripts(<<cls.checkout[1], @[1]>>, "\n"),
                       joinScripts(<<cls.checkout[2], @[2]>>, "\n"),
                       cls.checkout[3] \o @[3],
                       cls.checkout[4] \o @[4]>>,
        !.build = <<joinScripts(<<cls.build[1], @[1]>>, "\n"),
                    joinScripts(<<cls.build[2], @[2]>>, "\n")>>,
        !.package = <<joinScripts(<<cls.package[1], @[1]>>, "\n"),
                      joinScripts(<<cls.package[2], @[2]>>, "\n")>>,
        !.fingerprintScripts = cls.fingerprintScripts \o @,
        !.fingerprintIf = cls.fingerprintIf \o @ ]

RECURSIVE inheritClasses(_, _, _, _)
inheritClasses(rs, self, inherit, mergeEnvironment) ==
    IF inherit = <<>> THEN self
    ELSE inheritClasses(rs, inheritClass(self, inherit[1], mergeEnvironment),
                        Tail(inherit), mergeEnvironment)

\* Recipe.resolveClasses: [ok, recipe]
resolveClasses(rs, self) ==
    IF self.classesResolved THEN [ ok |-> TRUE, recipe |-> self ]
    ELSE
    LET mergeEnvironment == rs.policies.mergeEnvironment
        start == [ self EXCEPT
                     !.classesResolved = TRUE,
                     !.varSelf = IF mergeEnvironment
                                 THEN (IF @ # <<>> THEN <<@>> ELSE <<>>) ELSE @,
                     !.varPrivate = IF mergeEnvironment
                                    THEN (IF @ # <<>> THEN <<@>> ELSE <<>>) ELSE @ ]
        finish(merged) ==
            LET availDeps == { merged.deps[i].recipe : i \in DOMAIN merged.deps }
            IN  IF ~(merged.provideDeps \subseteq availDeps)
                THEN [ ok |-> FALSE, recipe |-> self ]
                ELSE [ ok |-> TRUE,
                       recipe |-> [ merged EXCEPT
                           !.varSelf = IF mergeEnvironment THEN @
                                       ELSE (IF @ # <<>> THEN <<@>> ELSE <<>>),
                           !.varPrivate = IF mergeEnvironment THEN @
                                          ELSE (IF @ # <<>> THEN <<@>> ELSE <<>>),
                           !.package = IF @[1] = None THEN <<"", sha1("")>> ELSE @,
                           !.shared = IF @ = True THEN True ELSE False ] ]
        inherit(order) ==
            IF ~order.ok THEN [ ok |-> FALSE, recipe |-> self ]
            ELSE finish(inheritClasses(rs, start, reverse(order.ret), mergeEnvironment))
    IN  inherit(resolveClassesOrder(rs, self, <<>>, {}, TRUE))

\* Recipe.createVirtualRoot
createVirtualRoot(rs, roots) ==
    resolveClasses(rs, Recipe([ Yaml EXCEPT
        !.depends = [ i \in DOMAIN roots |->
                        Dependency(roots[i], <<>>, FALSE, {"result"}, NoTemplate) ],
        !.buildScript = "true",
        !.packageScript = "true" ], TRUE, <<>>)).recipe

-----------------------------------------------------------------------------
(* PackageMatcher and the frames of Recipe.prepare *)

\* maybeGlob for a name without glob characters: [neg, name]
Glob(name) == [ neg |-> FALSE, name |-> name ]
NotGlob(name) == [ neg |-> TRUE, name |-> name ]

\* checkGlobList(name, allowed); allowed is <<>> (None) or <<list of globs>>
RECURSIVE checkGlobs(_, _, _)
checkGlobs(name, globs, ok) ==
    IF globs = <<>> THEN ok
    ELSE checkGlobs(name, Tail(globs),
                    IF globs[1].name = name THEN ~globs[1].neg ELSE ok)

checkGlobList(name, allowed) ==
    IF allowed = <<>> THEN TRUE ELSE checkGlobs(name, allowed[1], FALSE)

\* Env.filter(pattern): the data that is kept
filter(data, pattern) ==
    SelectSeq(data, LAMBDA kv : checkGlobList(kv[1], pattern))

\* tool.coreStep.variantId if tool is not None else None (None is <<>>)
toolVariantId(tools, name) ==
    IF has(tools, name)
    THEN corePackages[getitem(tools, name).coreStep].packageStep.variantId ELSE <<>>

sandboxVariantId(sandbox) ==
    IF sandbox # <<>> THEN corePackages[sandbox[1].coreStep].packageStep.variantId
    ELSE <<>>

\* PackageMatcher.__init__; touchedEnv / touchedTools are env.touchedKeys()
\* and tools.touchedKeys()
PackageMatcher(corePackage, env, touchedEnv, tools, touchedTools, sandbox, subTreePackages) ==
    [ corePackage |-> corePackage,
      env |-> [ name \in touchedEnv |-> get(env, name) ],
      tools |-> [ name \in touchedTools |-> toolVariantId(tools, name) ],
      sandbox |-> sandboxVariantId(sandbox),
      subTreePackages |-> subTreePackages ]

\* matches that also wants every name of the input env among the touched ones
matchesWholeEnv(m, inputEnv, inputTools, inputSandbox) ==
    /\ \A name \in DOMAIN m.env : m.env[name] = get(inputEnv, name)
    /\ keys(inputEnv) \subseteq DOMAIN m.env
    /\ \A name \in DOMAIN m.tools : m.tools[name] = toolVariantId(inputTools, name)
    /\ m.sandbox = sandboxVariantId(inputSandbox)

\* PackageMatcher.matches
matches(m, inputEnv, inputTools, inputSandbox) ==
    /\ \A name \in DOMAIN m.env : m.env[name] = get(inputEnv, name)
    /\ \A name \in DOMAIN m.tools : m.tools[name] = toolVariantId(inputTools, name)
    /\ m.sandbox = sandboxVariantId(inputSandbox)

\* The local variables of one prepare call. pc is "enter" (before the
\* matcher loop), "deps" (in the dependency loop) or "call" (waiting for the
\* prepare call of dependency depIdx). callTools keeps the inputTools
\* argument, which the code rebinds to its filtered copy.
Frame(recipe, inputEnv, inputTools, inputSandbox, stack) ==
    [ recipe |-> recipe, pc |-> "enter", inputEnv |-> inputEnv,
      inputTools |-> inputTools, callTools |-> inputTools,
      inputSandbox |-> inputSandbox, stack |-> stack,
      reusedCorePackage |-> <<>>, env |-> <<>>, tools |-> <<>>, sandbox |-> <<>>,
      diffTools |-> <<>>, diffSandbox |-> Inherit,
      depEnv |-> <<>>, depTools |-> <<>>, depSandbox |-> <<>>,
      depDiffTools |-> <<>>, depDiffSandbox |-> Inherit,
      thisDeps |-> <<>>, directPackages |-> <<>>, indirectPackages |-> <<>>,
      provideDeps |-> <<>>, results |-> <<>>, subTreePackages |-> {},
      depIdx |-> 1, touchedEnv |-> {}, touchedTools |-> {} ]

\* Env.touch on an Env of the call at the top of fs: the key enters the
\* touched set of that call and of every calling one
touch(fs, envKeys, toolKeys) ==
    [ i \in DOMAIN fs |-> [ fs[i] EXCEPT !.touchedEnv = @ \cup envKeys,
                                         !.touchedTools = @ \cup toolKeys ] ]

top(fs) == fs[Len(fs)]

callers(fs) == SubSeq(fs, 1, Len(fs) - 1)

setTop(fs, f) == [ fs EXCEPT ![Len(fs)] = f ]

Running == status.state = "running" /\ frames # <<>>

\* an exception leaves every active prepare call
\* the exception leaves the cache file open for writing
RaiseTruncating(kind, msg) ==
    /\ status' = [ state |-> kind, msg |-> msg ]
    /\ frames' = <<>>
    /\ ret' = <<>>
    /\ packageCache' = <<>>
    /\ UNCHANGED rootPackage

\* an exception of kind `kind` leaves every active prepare call and
\* __generatePackages
Raise(kind, msg) ==
    /\ status' = [ state |-> kind, msg |-> msg ]
    /\ frames' = <<>>
    /\ ret' = <<>>
    /\ UNCHANGED <<packageCache, rootPackage>>

\* Package.__init__ (the tools and the sandbox are left out)
Package(corePackage, stack) == [ corePackage |-> corePackage, stack |-> stack ]

\* the cache key of __getEnvWithCacheKey
cacheKey == [ recipes |-> files, env |-> recipeSet.env, sandboxEnabled |-> sandboxEnabled ]

\* __generatePackages after the prepare of the virtual root returned `result`:
\* "save package tree for next invocation", which an OSError may prevent, and
\* `return result.refDeref([], {}, None, nameFormatter)`
savePackageTree(result) ==
    /\ \E saved \in BOOLEAN :
          packageCache' = IF saved THEN <<[ cacheKey |-> cacheKey, result |-> result ]>>
                          ELSE packageCache
    /\ rootPackage' = <<Package(result, <<>>)>>

\* `return p, s` of the call at the top of the stack; fs are the callers
Return(fs, p, s) ==
    /\ frames' = fs
    /\ ret' = <<[ p |-> p, s |-> s ]>>
    /\ status' = IF fs = <<>> THEN [ state |-> "done", msg |-> "" ] ELSE status
    /\ IF fs = <<>> THEN savePackageTree(p) ELSE UNCHANGED <<packageCache, rootPackage>>

Range(s) == { s[i] : i \in DOMAIN s }

\* every dictionary is substituted against the environment the loop started
\* with
RECURSIVE deriveFrom(_, _, _)
deriveFrom(base, env, dicts) ==
    IF dicts = <<>> THEN [ ok |-> TRUE, env |-> env, touched |-> {} ]
    ELSE LET s == substituteAll(base, dicts[1])
             r == deriveFrom(base, update(env, s.val), Tail(dicts))
         IN  [ ok |-> s.ok /\ r.ok, env |-> r.env,
               touched |-> s.touched \cup r.touched ]

deriveFlat(env, dicts) == deriveFrom(env, env, dicts)

\* for i in dicts: env = env.derive({ key : env.substitute(value) ... })
RECURSIVE deriveAll(_, _)
deriveAll(env, dicts) ==
    IF dicts = <<>> THEN [ ok |-> TRUE, env |-> env, touched |-> {} ]
    ELSE LET s == substituteAll(env, dicts[1])
             r == deriveAll(update(env, s.val), Tail(dicts))
         IN  [ ok |-> s.ok /\ r.ok, env |-> r.env,
               touched |-> s.touched \cup r.touched ]

\* no package is under construction
NoPkg == [ pkgId |-> 0 ]

\* Recipe.prepare, "Track tool and sandbox changes" up to the dependency
\* loop: [ok, frame, touched, filtered]
enterLocals(f, self) ==
    LET inputTools == IF self.filterTools = <<>> THEN f.inputTools
                      ELSE filter(f.inputTools, self.filterTools)
        removed == SelectSeq(f.inputTools, LAMBDA nt : ~has(inputTools, nt[1]))
        diffTools == [ i \in DOMAIN removed |-> <<removed[i][1], <<>> >> ]
        env0 == filter(f.inputEnv, self.filterEnv)
        dropSandbox == /\ f.inputSandbox # <<>>
                       /\ ~checkGlobList(corePackages[f.inputSandbox[1].coreStep].recipe,
                                         self.filterSandbox)
        sandbox == IF dropSandbox THEN <<>> ELSE f.inputSandbox
        diffSandbox == IF dropSandbox THEN Clear ELSE Inherit
        locals(d) ==
            [ ok |-> d.ok,
              touched |-> d.touched \cup (IF self.filterEnv = <<>> THEN {}
                                          ELSE keys(f.inputEnv)),
              filtered |-> IF self.filterTools = <<>> THEN {} ELSE keys(f.inputTools),
              frame |-> [ f EXCEPT
                  !.pc = "deps", !.inputTools = inputTools,
                  !.env = d.env, !.tools = inputTools, !.sandbox = sandbox,
                  !.diffTools = diffTools, !.diffSandbox = diffSandbox,
                  !.depEnv = d.env, !.depTools = inputTools, !.depSandbox = sandbox,
                  !.depDiffTools = diffTools, !.depDiffSandbox = diffSandbox ] ]
    IN  locals(deriveAll(env0, self.varSelf))

\* a matcher hit that is taken without looking at the stack
cyclicUnchecked(stack, m) == FALSE

\* set(stack) & m.subTreePackages
cyclic(stack, m) == Range(stack) \cap m.subTreePackages # {}

\* Recipe.prepare: the matcher loop ("already calculated?") and, on a miss,
\* the set-up of the locals
PrepareEnter ==
    /\ UNCHANGED buildRun
    /\ Running
    /\ top(frames).pc = "enter"
    /\ LET f == top(frames)
           self == recipeSet.recipes[f.recipe]
           ms == corePackagesByMatch[f.recipe]
           hits == { i \in DOMAIN ms :
                       matches(ms[i], f.inputEnv, f.inputTools, f.inputSandbox) }
           hit == hits # {}
           m == ms[CHOOSE i \in hits : \A j \in hits : i <= j]
           outer == IF hit THEN touch(callers(frames), DOMAIN m.env, DOMAIN m.tools)
                    ELSE callers(frames)
           setUp(loc) ==
               IF ~loc.ok
               THEN Raise("ParseError", "environment")
               ELSE /\ frames' = touch(
                           Append(touch(outer, {}, loc.filtered),
                                  [ loc.frame EXCEPT !.reusedCorePackage =
                                        IF hit THEN <<m.corePackage>> ELSE <<>> ]),
                           loc.touched, {})
                    /\ UNCHANGED <<ret, status, packageCache, rootPackage>>
       IN  IF hit /\ cyclic(f.stack, m)
           THEN Raise("ParseError", "Recipes are cyclic")
           ELSE IF hit /\ ~DEBUG.pkgck
           THEN Return(outer, m.corePackage, m.subTreePackages)
           ELSE setUp(enterLocals(f, self))
    /\ UNCHANGED <<recipeSet, sandboxEnabled, DEBUG, files, warnDepends,
                   corePackagesByMatch,
                   corePackagesById, corePackages, uidGen>>

\* Recipe.prepare: head of the dependency loop up to the recursive call
DepNext ==
    /\ UNCHANGED buildRun
    /\ Running
    /\ top(frames).pc = "deps"
    /\ top(frames).depIdx <= Len(recipeSet.recipes[top(frames).recipe].deps)
    /\ LET f == top(frames)
           dep == recipeSet.recipes[f.recipe].deps[f.depIdx]
           c == evaluate(f.env, dep.condition)
       IN  IF ~c.ok
           THEN Raise("ParseError", "condition")
           ELSE IF ~c.val
           THEN /\ frames' = touch(setTop(frames, [ f EXCEPT !.depIdx = @ + 1 ]),
                                   c.touched, {})
                /\ UNCHANGED <<ret, status, packageCache, rootPackage>>
           ELSE IF dep.recipe \notin DOMAIN recipeSet.recipes
           THEN Raise("ParseError", "Package requested but not found.")
           ELSE IF dep.recipe \in Range(f.stack)
           THEN Raise("ParseError", "Recipes are cyclic (1st package in cylce)")
           ELSE /\ frames' = Append(
                       touch(setTop(frames, [ f EXCEPT !.pc = "call" ]), c.touched, {}),
                       Frame(dep.recipe, update(f.depEnv, dep.envOverride),
                             f.depTools, f.depSandbox, Append(f.stack, dep.recipe)))
                /\ UNCHANGED <<ret, status, packageCache, rootPackage>>
    /\ UNCHANGED <<recipeSet, sandboxEnabled, DEBUG, files, warnDepends,
                   corePackagesByMatch,
                   corePackagesById, corePackages, uidGen>>

\* DepTracker.__init__
DepTracker(item) == [ item |-> item, isNew |-> TRUE, usedResult |-> FALSE ]

\* nothing is picked up from the dependency
providedEnvUnused(dep, depCoreStep) == <<>>

\* `if dep.useEnv: env.update(depCoreStep.providedEnv)`: what env is updated with
providedEnvUsed(dep, depCoreStep) ==
    IF dep.useEnv THEN depCoreStep.providedEnv ELSE <<>>

\* no dependency forwards its tools
forwardNoTools(dep) == FALSE

\* forward alone hands the tools on
forwardUnused(dep) == dep.provideGlobal

\* `if dep.useTools: ... if dep.provideGlobal:` the tools of the dependency
\* are forwarded to the dependencies that follow
forwardTools(dep) == dep.useTools /\ dep.provideGlobal

\* a tracker that hands out the result every time
useResultAlways(depTrack) == TRUE

\* DepTracker.useResultOnce: the value it returns
useResultOnce(depTrack) == ~depTrack.usedResult

\* the name of the package a reference leads to
refName(ref, p) == pkgOf(destOf(ref).pkgId, p).recipe

\* UniquePackageList.extend onto the list `upl`: [ok, ret]
RECURSIVE uplExtend(_, _)
uplExtend(upl, refs) ==
    IF refs = <<>> THEN [ ok |-> TRUE, ret |-> upl ]
    ELSE LET ref == refs[1]
             same == SelectSeq(upl, LAMBDA r : refName(r, NoPkg) = refName(ref, NoPkg))
         IN  IF same = <<>> THEN uplExtend(Append(upl, ref), Tail(refs))
             ELSE IF refGetDestination(same[1], NoPkg).variantId
                     # refGetDestination(ref, NoPkg).variantId
             THEN [ ok |-> FALSE, ret |-> upl ]
             ELSE uplExtend(upl, Tail(refs))

\* a dependency that is named again is taken whatever its variant
compatibleLocal(depTrack, depCoreStep) == FALSE

\* the dependency was named before, with another Variant-Id
incompatibleLocal(depTrack, depCoreStep) ==
    /\ ~depTrack.isNew
    /\ depCoreStep.variantId # refGetDestination(depTrack.item, NoPkg).variantId

\* Recipe.prepare: the dependency loop after the recursive call returned
DepReturn ==
    /\ UNCHANGED buildRun
    /\ Running
    /\ top(frames).pc = "call"
    /\ ret # <<>>
    /\ LET f == top(frames)
           self == recipeSet.recipes[f.recipe]
           dep == self.deps[f.depIdx]
           p == corePackages[ret[1].p]
           name == p.recipe
           depCoreStep == p.packageStep
           depRef == CoreRef(Dest("dist", p.pkgId, ""), <<name>>,
                             f.depDiffTools, f.depDiffSandbox)
           mkRef(d) == CoreRef(d, <<name>>, f.depDiffTools, f.depDiffSandbox)
           depTrack == IF has(f.thisDeps, dep.recipe)
                       THEN getitem(f.thisDeps, dep.recipe) ELSE DepTracker(depRef)
           incompatible == incompatibleLocal(depTrack, depCoreStep)
           duplicate == ~depTrack.isNew /\ recipeSet.policies.uniqueDependency
           warn == ~depTrack.isNew /\ ~incompatible /\ ~duplicate
           useResult == dep.useBuildResult /\ useResultOnce(depTrack)
           provTools == depCoreStep.providedTools
           toolRefs == [ i \in DOMAIN provTools |->
                           <<provTools[i][1],
                             <<mkRef(Dest("tool", provTools[i][2].coreStep,
                                          provTools[i][1]))>> >> ]
           provDeps == [ i \in DOMAIN depCoreStep.providedDeps |->
                           mkRef(depCoreStep.providedDeps[i]) ]
           sbx == depCoreStep.providedSandbox
           useSbx == dep.useSandbox /\ sbx # <<>>
           sbxRef == Replace(mkRef(Dest("sandbox", sbx[1].coreStep, "")))
           envAdd == providedEnvUsed(dep, depCoreStep)
                     \o (IF useSbx /\ sandboxEnabled THEN sbx[1].environment ELSE <<>>)
           upl == IF dep.recipe \in self.provideDeps
                  THEN uplExtend(f.provideDeps, <<depRef>> \o provDeps)
                  ELSE [ ok |-> TRUE, ret |-> f.provideDeps ]
       IN  /\ warnDepends' = IF warn THEN warnDepends \cup {<<self.packageName, dep.recipe>>}
                              ELSE warnDepends
           /\ IF incompatible
              THEN Raise("ParseError", "Multiple incompatible dependencies")
              ELSE IF duplicate
              THEN Raise("ParseError", "Duplicate dependency")
              ELSE IF ~upl.ok
              THEN Raise("ParseError", "Incompatible variants of package")
              ELSE /\ frames' = setTop(frames, [ f EXCEPT
                         !.pc = "deps",
                         !.depIdx = @ + 1,
                         !.subTreePackages = @ \cup {name} \cup ret[1].s,
                         !.thisDeps = set(@, dep.recipe,
                             [ depTrack EXCEPT !.isNew = FALSE,
                                               !.usedResult = @ \/ dep.useBuildResult ]),
                         !.directPackages = IF depTrack.isNew THEN Append(@, depRef) ELSE @,
                         !.indirectPackages = IF dep.useDeps THEN @ \o provDeps ELSE @,
                         !.results = IF useResult THEN Append(@, depRef) ELSE @,
                         !.tools = IF dep.useTools THEN update(@, provTools) ELSE @,
                         !.diffTools = IF dep.useTools THEN update(@, toolRefs) ELSE @,
                         !.depTools = IF forwardTools(dep) THEN update(@, provTools) ELSE @,
                         !.depDiffTools = IF forwardTools(dep) THEN update(@, toolRefs)
                                          ELSE @,
                         !.env = update(@, envAdd),
                         !.depEnv = IF dep.provideGlobal THEN update(@, envAdd) ELSE @,
                         !.sandbox = IF useSbx THEN sbx ELSE @,
                         !.diffSandbox = IF useSbx THEN sbxRef ELSE @,
                         !.depSandbox = IF useSbx /\ dep.provideGlobal THEN sbx ELSE @,
                         !.depDiffSandbox = IF useSbx /\ dep.provideGlobal
                                            THEN sbxRef ELSE @,
                         !.provideDeps = upl.ret ])
                   /\ ret' = <<>>
                   /\ UNCHANGED <<status, packageCache, rootPackage>>
    /\ UNCHANGED <<recipeSet, sandboxEnabled, DEBUG, files, corePackagesByMatch,
                   corePackagesById, corePackages, uidGen>>

\* every indirect package is kept
filterNothing(tmp, thisDeps, indirectPackages, results) ==
    [ ok |-> TRUE, thisDeps |-> thisDeps, indirectPackages |-> tmp,
      results |-> results \o tmp ]

\* Recipe.prepare, "Filter indirect packages and add to result list":
\* [ok, thisDeps, indirectPackages, results]
RECURSIVE filterIndirect(_, _, _, _)
filterIndirect(tmp, thisDeps, indirectPackages, results) ==
    IF tmp = <<>>
    THEN [ ok |-> TRUE, thisDeps |-> thisDeps,
           indirectPackages |-> indirectPackages, results |-> results ]
    ELSE LET depRef == tmp[1]
             name == refName(depRef, NoPkg)
             depTrack == IF has(thisDeps, name) THEN getitem(thisDeps, name)
                         ELSE DepTracker(depRef)
         IN  IF /\ ~depTrack.isNew
                /\ refGetDestination(depRef, NoPkg).variantId
                       # refGetDestination(depTrack.item, NoPkg).variantId
             THEN [ ok |-> FALSE, thisDeps |-> thisDeps,
                    indirectPackages |-> indirectPackages, results |-> results ]
             ELSE filterIndirect(Tail(tmp),
                      set(thisDeps, name,
                          [ depTrack EXCEPT !.isNew = FALSE, !.usedResult = TRUE ]),
                      IF depTrack.isNew THEN Append(indirectPackages, depRef)
                      ELSE indirectPackages,
                      IF useResultOnce(depTrack) THEN Append(results, depRef)
                      ELSE results)

\* Recipe.prepare, "apply tool environments": [ok, env]
RECURSIVE applyToolEnv(_, _, _)
applyToolEnv(tools, env, toolsEnv) ==
    IF tools = <<>> THEN [ ok |-> TRUE, env |-> env ]
    ELSE LET environment == tools[1][2].environment
         IN  IF keys(environment) \cap toolsEnv # {}
             THEN [ ok |-> FALSE, env |-> env ]
             ELSE applyToolEnv(Tail(tools), update(env, environment),
                               toolsEnv \cup keys(environment))

\* no condition is taken
fingerprintNever(fingerprintConditions, env, mask) ==
    [ ok |-> TRUE, doFingerprint |-> 0, doFingerprintMaybe |-> 0, touched |-> {} ]

\* Recipe.prepare, "Check if fingerprinting has to be applied":
\* [ok, doFingerprint, doFingerprintMaybe, touched]
RECURSIVE fingerprintBits(_, _, _)
fingerprintBits(fingerprintConditions, env, mask) ==
    IF fingerprintConditions = <<>>
    THEN [ ok |-> TRUE, doFingerprint |-> 0, doFingerprintMaybe |-> 0, touched |-> {} ]
    ELSE LET fingerprintIf == fingerprintConditions[1]
             isStr == fingerprintIf.lit \notin {None, True, False}
             e == evaluate(env, fingerprintIf)
             r == fingerprintBits(Tail(fingerprintConditions), env, 2 * mask)
         IN  [ ok |-> (isStr => e.ok) /\ r.ok,
               doFingerprint |-> r.doFingerprint +
                   (IF fingerprintIf.lit = True \/ (isStr /\ e.val) THEN mask ELSE 0),
               doFingerprintMaybe |-> r.doFingerprintMaybe +
                   (IF fingerprintIf.lit = None THEN mask ELSE 0),
               touched |-> r.touched \cup (IF isStr THEN e.touched ELSE {}) ]

-----------------------------------------------------------------------------
(* Construction of the steps, tools and sandbox of a package *)

\* A path is the list of the parts between its separators: "a/b" is
\* <<"a", "b">>, "/a" is <<"", "a">>, "a/" is <<"a", "">> and "" is <<"">>.

\* os.path.isabs: the path starts with the separator
isabs(p) == Len(p) >= 2 /\ p[1] = ""

\* the loop of os.path.normpath over the parts of a path
RECURSIVE normComps(_, _, _)
normComps(comps, acc, abs) ==
    IF comps = <<>> THEN acc
    ELSE IF comps[1] \in {"", "."} THEN normComps(Tail(comps), acc, abs)
    ELSE IF \/ comps[1] # ".."
            \/ ~abs /\ acc = <<>>
            \/ acc # <<>> /\ acc[Len(acc)] = ".."
    THEN normComps(Tail(comps), Append(acc, comps[1]), abs)
    ELSE IF acc # <<>> THEN normComps(Tail(comps), SubSeq(acc, 1, Len(acc) - 1), abs)
    ELSE normComps(Tail(comps), acc, abs)

\* os.path.normpath(p).split(os.sep), with <<>> for "."
normpath(p) == (IF isabs(p) THEN <<"">> ELSE <<>>) \o normComps(p, <<>>, isabs(p))

\* only the same directory overlaps
equalPaths(p1, p2) == normpath(p1) = normpath(p2)

\* overlappingPaths
overlappingPaths(p1, p2) ==
    \A i \in 1..(IF Len(normpath(p1)) < Len(normpath(p2))
                 THEN Len(normpath(p1)) ELSE Len(normpath(p2))) :
        normpath(p1)[i] = normpath(p2)[i]

\* A checkoutSCM entry: url is a template, dir a literal path
ScmSpec(url, dir, cond, deterministic) ==
    [ url |-> url, dir |-> dir, if |-> cond, deterministic |-> deterministic ]

\* Scm(spec, env, overrides, recipeSet) without overrides: [ok, scm, touched]
Scm(spec, env) ==
    LET u == substitute(env, spec.url)
    IN  [ ok |-> u.ok, touched |-> u.touched,
          scm |-> [ dir |-> spec.dir, deterministic |-> spec.deterministic,
                    digestScript |-> u.val \o " " \o joinList(spec.dir, "/") ] ]

\* the scmList comprehension of CoreCheckoutStep.__init__: [ok, scmList, touched]
RECURSIVE makeScmList(_, _)
makeScmList(scms, fullEnv) ==
    IF scms = <<>> THEN [ ok |-> TRUE, scmList |-> <<>>, touched |-> {} ]
    ELSE LET c == evaluate(fullEnv, scms[1].if)
             s == Scm(scms[1], fullEnv)
             r == makeScmList(Tail(scms), fullEnv)
         IN  IF ~c.ok THEN [ ok |-> FALSE, scmList |-> <<>>, touched |-> c.touched ]
             ELSE IF ~c.val
             THEN [ r EXCEPT !.touched = @ \cup c.touched ]
             ELSE [ ok |-> s.ok /\ r.ok, scmList |-> <<s.scm>> \o r.scmList,
                    touched |-> c.touched \cup s.touched \cup r.touched ]

\* "Validate that SCM paths do not overlap"
scmPathsOk(scmList) ==
    /\ \A i \in DOMAIN scmList : ~isabs(scmList[i].dir)
    /\ \A i, j \in DOMAIN scmList :
           i < j => ~overlappingPaths(scmList[i].dir, scmList[j].dir)

\* CoreStep.isDeterministic / CoreCheckoutStep.isDeterministic
isDeterministic(step) ==
    /\ step.deterministic
    /\ step.label = "src" => \A i \in DOMAIN step.scmList : step.scmList[i].deterministic

\* CoreStep.getAllDepCoreSteps
getAllDepCoreSteps(p, step, forceSandbox) ==
    LET tools == sorted(getTools(p, step))
        sandbox == getSandbox(p, step, forceSandbox)
    IN  [ i \in DOMAIN step.args |-> refGetDestination(step.args[i], p) ]
        \o [ i \in DOMAIN tools |-> coreStepOf(tools[i][2].coreStep, p) ]
        \o (IF sandbox # <<>> THEN <<coreStepOf(sandbox[1].coreStep, p)>> ELSE <<>>)

\* CoreStep.__init__
CoreStep(p, label, isValid, deterministic, digestEnv, env, args, scmList) ==
    LET s0 == [ label |-> label, isValid |-> isValid, digestEnv |-> digestEnv,
                env |-> env, args |-> args, scmList |-> scmList,
                deterministic |-> FALSE, variantId |-> <<>>,
                providedEnv |-> <<>>, providedTools |-> <<>>, providedDeps |-> <<>>,
                providedSandbox |-> <<>> ]
        deps == getAllDepCoreSteps(p, s0, TRUE)
        s1 == [ s0 EXCEPT !.deterministic =
                    deterministic /\ \A i \in DOMAIN deps : isDeterministic(deps[i]) ]
    IN  [ s1 EXCEPT !.variantId = getDigest(p, s1) ]

\* a checkout with a script or any SCM
hasScriptOrScm(checkout, scmList) == checkout[1] # None \/ checkout[3] # <<>>

\* `isValid = (checkout[0] is not None) or bool(self.scmList)`
checkoutIsValid(checkout, scmList) == checkout[1] # None \/ scmList # <<>>

\* CoreCheckoutStep.__init__ with a checkout: [ok, step, touched]
CoreCheckoutStep(p, checkout, fullEnv, digestEnv, env) ==
    LET init(l) ==
            [ ok |-> l.ok /\ scmPathsOk(l.scmList), touched |-> l.touched,
              step |-> CoreStep(p, "src", checkoutIsValid(checkout, l.scmList),
                                recipeOf(p).checkoutDeterministic,
                                digestEnv, env, <<>>, l.scmList) ]
    IN  init(makeScmList(checkout[3], fullEnv))

\* CorePackage.createInvalidCoreCheckoutStep
createInvalidCoreCheckoutStep(p) ==
    CoreStep(p, "src", FALSE, recipeOf(p).checkoutDeterministic, <<>>, <<>>, <<>>, <<>>)

\* CoreBuildStep.__init__
CoreBuildStep(p, script, digestEnv, env, args) ==
    CoreStep(p, "build", script[1] # None, TRUE, digestEnv, env, args, <<>>)

\* CorePackageStep.__init__
CorePackageStep(p, script, digestEnv, env, args) ==
    CoreStep(p, "dist", script[1] # None, TRUE, digestEnv, env, args, <<>>)

\* [ env.substitute(l) for l in libs ]: [ok, val, touched]
RECURSIVE substituteList(_, _)
substituteList(env, l) ==
    IF l = <<>> THEN [ ok |-> TRUE, val |-> <<>>, touched |-> {} ]
    ELSE LET s == substitute(env, l[1])
             r == substituteList(env, Tail(l))
         IN  [ ok |-> s.ok /\ r.ok, val |-> <<s.val>> \o r.val,
               touched |-> s.touched \cup r.touched ]

\* AbstractTool.prepare: [ok, val, touched]
toolPrepare(tool, coreStepRef, env) ==
    LET path == substitute(env, tool.path)
        libs == substituteList(env, tool.libs)
        environment == substituteAll(env, tool.environment)
    IN  [ ok |-> path.ok /\ libs.ok /\ environment.ok,
          touched |-> path.touched \cup libs.touched \cup environment.touched,
          val |-> [ coreStep |-> coreStepRef, path |-> path.val, libs |-> libs.val,
                    netAccess |-> tool.netAccess, environment |-> environment.val,
                    fingerprintScript |-> tool.fingerprintScript,
                    fingerprintIf |-> tool.fingerprintIf ] ]

\* { name : tool.prepare(packageCoreStep, env) for ... }: [ok, val, touched]
RECURSIVE prepareTools(_, _, _)
prepareTools(provideTools, coreStepRef, env) ==
    IF provideTools = <<>> THEN [ ok |-> TRUE, val |-> <<>>, touched |-> {} ]
    ELSE LET t == toolPrepare(provideTools[1][2], coreStepRef, env)
             r == prepareTools(Tail(provideTools), coreStepRef, env)
         IN  [ ok |-> t.ok /\ r.ok, val |-> <<<<provideTools[1][1], t.val>>>> \o r.val,
               touched |-> t.touched \cup r.touched ]

\* the mount loop of CoreSandbox.__init__: [ok, val, touched]
RECURSIVE sandboxMounts(_, _)
sandboxMounts(mount, env) ==
    IF mount = <<>> THEN [ ok |-> TRUE, val |-> <<>>, touched |-> {} ]
    ELSE LET from == substitute(env, mount[1][1])
             to == substitute(env, mount[1][2])
             r == sandboxMounts(Tail(mount), env)
         IN  [ ok |-> from.ok /\ to.ok /\ r.ok,
               val |-> (IF from.val # "" /\ to.val # ""
                        THEN <<<<from.val, to.val, mount[1][3]>>>> ELSE <<>>) \o r.val,
               touched |-> from.touched \cup to.touched \cup r.touched ]

\* the two characters of a name of length two
chars(k) ==
    CASE k = "CC" -> <<"C", "C">>
      [] k = "cc" -> <<"c", "c">>
      [] k = "ld" -> <<"l", "d">>

\* the environment comprehension of CoreSandbox.__init__, which iterates over
\* the keys of the dict and unpacks each key into (k, v): [ok, val]
RECURSIVE sandboxEnvironment(_)
sandboxEnvironment(environment) ==
    IF environment = <<>> THEN [ ok |-> TRUE, val |-> <<>> ]
    ELSE LET k == environment[1][1]
             r == sandboxEnvironment(Tail(environment))
         IN  IF Len(k) # 2 THEN [ ok |-> FALSE, val |-> <<>> ]
             ELSE [ ok |-> r.ok,
                    val |-> update(<<<<chars(k)[1], chars(k)[2]>>>>, r.val) ]

\* CoreSandbox.__init__: [ok, error, val, touched]
CoreSandbox(coreStep, env, enabled, spec) ==
    LET mounts == sandboxMounts(spec.mount, env)
        environment == sandboxEnvironment(spec.environment)
    IN  [ ok |-> mounts.ok /\ environment.ok,
          error |-> IF ~mounts.ok THEN "ParseError" ELSE "ValueError",
          touched |-> mounts.touched,
          val |-> [ coreStep |-> coreStep, enabled |-> enabled, paths |-> spec.paths,
                    mounts |-> mounts.val, environment |-> environment.val ] ]

-----------------------------------------------------------------------------
(* Recipe.prepare after the dependency loop *)

\* "Filter indirect packages": [ok, indirectPackages, results, env, touched]
filterIndirectStage(f) ==
    LET filtered(ind) ==
            [ ok |-> ind.ok, indirectPackages |-> ind.indirectPackages,
              results |-> ind.results, env |-> f.env, touched |-> {} ]
    IN  filtered(filterIndirect(f.indirectPackages, f.thisDeps, <<>>, f.results))

\* the tools that the package step uses, sorted by name
toolsUsed(f, self) ==
    SelectSeq(sorted(f.tools), LAMBDA nt : nt[1] \in self.toolDepPackage)

\* "apply tool environments"
toolEnvStage(f, self, st) ==
    LET applied(te) == [ st EXCEPT !.ok = @ /\ te.ok, !.env = te.env ]
    IN  applied(applyToolEnv(SelectSeq(toolsUsed(f, self),
                                       LAMBDA nt : nt[2].environment # <<>>),
                             st.env, {}))

\* "apply private environment" and "meta variables"; the three steps touch
\* their variables later on
privateEnvStage(self, st) ==
    LET derived(pe) ==
            [ st EXCEPT
                !.ok = @ /\ pe.ok,
                !.env = set(set(update(pe.env, self.metaEnv),
                                "BOB_RECIPE_NAME", self.baseName),
                            "BOB_PACKAGE_NAME", self.packageName),
                !.touched = pe.touched \cup self.packageVars
                            \cup self.packageVarsWeak ]
    IN  derived(deriveAll(st.env, self.varPrivate))

\* "check if fingerprinting has to be applied":
\* [ok, indirectPackages, results, env, doFingerprint, touched]
fingerprintStage(f, self, st) ==
    LET masked(fp) ==
            [ ok |-> st.ok /\ fp.ok,
              indirectPackages |-> st.indirectPackages,
              results |-> st.results,
              env |-> st.env,
              doFingerprint |-> IF fp.doFingerprint # 0
                                THEN fp.doFingerprint + fp.doFingerprintMaybe ELSE 0,
              touched |-> st.touched \cup fp.touched ]
    IN  masked(fingerprintBits(
                   [ i \in DOMAIN toolsUsed(f, self) |->
                       toolsUsed(f, self)[i][2].fingerprintIf ]
                   \o self.fingerprintIf, st.env, 1))

\* from "Filter indirect packages" to the fingerprint mask
finishEnv(f, self) ==
    fingerprintStage(f, self,
        privateEnvStage(self, toolEnvStage(f, self, filterIndirectStage(f))))

\* "create package": [ok, error, p, touched] with the package p so far
createCorePackage(f, fe, pkgId) ==
    [ ok |-> TRUE, error |-> "ParseError", touched |-> {},
      p |-> [ recipe |-> f.recipe, pkgId |-> pkgId, tools |-> f.tools,
              sandbox |-> f.sandbox,
              internalRef |-> CoreRef(Dest("internal", pkgId, ""), <<>>,
                                      f.diffTools, f.diffSandbox),
              directDepSteps |-> f.directPackages,
              indirectDepSteps |-> fe.indirectPackages,
              fingerprintMask |-> fe.doFingerprint,
              checkoutStep |-> <<>>, buildStep |-> <<>>, packageStep |-> <<>> ] ]

\* "optional checkout step"
checkoutStage(self, env, st) ==
    LET checkoutDigestEnv == prune(env, self.checkoutVars)
        checkoutEnv == IF self.checkoutVarsWeak # {}
                       THEN prune(env, self.checkoutVars \cup self.checkoutVarsWeak)
                       ELSE checkoutDigestEnv
        created(src) == [ st EXCEPT !.ok = src.ok, !.touched = src.touched,
                                    !.p.checkoutStep = src.step ]
    IN  created(IF self.checkout # <<None, None, <<>>, <<>> >>
                THEN CoreCheckoutStep(st.p, self.checkout, env, checkoutDigestEnv,
                                      checkoutEnv)
                ELSE [ ok |-> TRUE, touched |-> {},
                       step |-> createInvalidCoreCheckoutStep(st.p) ])

\* a build step that is made from the results whether there is a build
\* script or not
buildAlways(self, fe, st) ==
    [ st EXCEPT !.p.buildStep =
        CoreBuildStep(st.p, IF self.build # <<None, None>> THEN self.build
                            ELSE <<"", "">>,
            prune(fe.env, self.buildVars), prune(fe.env, self.buildVars),
            <<CoreRef(Dest("src", st.p.pkgId, ""), <<>>, <<>>, Inherit)>>
            \o fe.results) ]

\* "optional build step"
buildStage(self, fe, st) ==
    LET buildDigestEnv == prune(fe.env, self.buildVars)
        buildEnv == IF self.buildVarsWeak # {}
                    THEN prune(fe.env, self.buildVars \cup self.buildVarsWeak)
                    ELSE buildDigestEnv
    IN  [ st EXCEPT !.p.buildStep =
            IF self.build # <<None, None>>
            THEN CoreBuildStep(st.p, self.build, buildDigestEnv, buildEnv,
                     <<CoreRef(Dest("src", st.p.pkgId, ""), <<>>, <<>>, Inherit)>>
                     \o fe.results)
            ELSE CoreBuildStep(st.p, <<None, None>>, <<>>, <<>>, <<>>) ]

\* "mandatory package step"
packageStage(self, env, st) ==
    LET packageDigestEnv == prune(env, self.packageVars)
        packageEnv == IF self.packageVarsWeak # {}
                      THEN prune(env, self.packageVars \cup self.packageVarsWeak)
                      ELSE packageDigestEnv
    IN  [ st EXCEPT !.p.packageStep =
            CorePackageStep(st.p, self.package, packageDigestEnv, packageEnv,
                <<CoreRef(Dest("build", st.p.pkgId, ""), <<>>, <<>>, Inherit)>>) ]

\* "provide environment", "provide tools", "provide deps" and "provide Sandbox"
provideStage(f, self, env, st) ==
    LET provided(provideEnv, provideTools, sbx) ==
            [ ok |-> st.ok /\ provideEnv.ok /\ provideTools.ok /\ sbx.ok,
              error |-> IF st.ok /\ provideEnv.ok /\ provideTools.ok /\ ~sbx.ok
                        THEN sbx.error ELSE "ParseError",
              p |-> [ st.p EXCEPT
                        !.packageStep.providedEnv = provideEnv.val,
                        !.packageStep.providedTools = provideTools.val,
                        !.packageStep.providedDeps = f.provideDeps,
                        !.packageStep.providedSandbox =
                            IF self.provideSandbox # <<>> THEN <<sbx.val>> ELSE <<>> ],
              touched |-> st.touched \cup provideEnv.touched
                          \cup provideTools.touched \cup sbx.touched ]
    IN  provided(substituteAll(env, self.provideVars),
                 prepareTools(self.provideTools, st.p.pkgId, env),
                 IF self.provideSandbox # <<>>
                 THEN CoreSandbox(st.p.pkgId, env, sandboxEnabled, self.provideSandbox[1])
                 ELSE [ ok |-> TRUE, error |-> "", touched |-> {}, val |-> <<>> ])

\* a package that is made whether it is deterministic or not
sharedUnchecked(self, st) == st

\* "Shared packages must be deterministic"
sharedStage(self, st) ==
    [ st EXCEPT !.ok = @ /\ ~(self.shared = True /\ ~isDeterministic(st.p.packageStep)) ]

\* from "create package" to the check of shared packages: [ok, error, p, touched]
finishPackage(f, self, fe, pkgId) ==
    sharedStage(self,
        provideStage(f, self, fe.env,
            packageStage(self, fe.env,
                buildStage(self, fe,
                    checkoutStage(self, fe.env, createCorePackage(f, fe, pkgId))))))

\* an assignment byId[pid] = pkgId
assign(byId, pid, pkgId) == set(byId, pid, pkgId)

\* self.__corePackagesById.setdefault(pid, p)
setdefault(byId, pid, pkgId) ==
    IF has(byId, pid) THEN byId ELSE Append(byId, <<pid, pkgId>>)

\* the matcher gets the package that was just made
matchedFresh(reusableCorePackage, pkgId) == pkgId

\* the package of the new PackageMatcher: reusableCorePackage
matched(reusableCorePackage, pkgId) == reusableCorePackage

\* Recipe.prepare from the end of the dependency loop to `return p, subTreePackages`
PrepareFinish ==
    /\ UNCHANGED buildRun
    /\ Running
    /\ top(frames).pc = "deps"
    /\ top(frames).depIdx > Len(recipeSet.recipes[top(frames).recipe].deps)
    /\ LET f == top(frames)
           self == recipeSet.recipes[f.recipe]
           byId == corePackagesById[f.recipe]
           reused == corePackages[f.reusedCorePackage[1]]
           register(p, pid, reusableCorePackage, touchedEnv, outer) ==
               IF f.reusedCorePackage = <<>>
               THEN /\ corePackagesById' = [ corePackagesById EXCEPT ![f.recipe] =
                           setdefault(byId, pid, p.pkgId) ]
                    /\ corePackages' = IF reusableCorePackage # p.pkgId
                                       THEN corePackages
                                       ELSE (p.pkgId :> p) @@ corePackages
                    /\ corePackagesByMatch' =
                           [ corePackagesByMatch EXCEPT ![f.recipe] =
                               <<PackageMatcher(matched(reusableCorePackage, p.pkgId),
                                     f.inputEnv,
                                     f.touchedEnv \cup touchedEnv, f.inputTools,
                                     f.touchedTools \cup self.toolDepPackage,
                                     f.inputSandbox, f.subTreePackages)>> \o @ ]
                    /\ Return(outer, reusableCorePackage, f.subTreePackages)
               ELSE IF pid # getResultId(reused, reused.packageStep)
               THEN /\ Raise("AssertionError", "Wrong reusage")
                    /\ UNCHANGED <<corePackagesByMatch, corePackagesById,
                                   corePackages>>
               ELSE /\ Return(outer, reused.pkgId, f.subTreePackages)
                    /\ UNCHANGED <<corePackagesByMatch, corePackagesById,
                                   corePackages>>
           identify(p, pid, touchedEnv) ==
               register(p, pid, getitem(setdefault(byId, pid, p.pkgId), pid), touchedEnv,
                        touch(callers(frames), touchedEnv, self.toolDepPackage))
           create(fe, fp) ==
               /\ uidGen' = uidGen + 1
               /\ IF ~fp.ok
                  THEN /\ Raise(fp.error, "prepare")
                       /\ UNCHANGED <<corePackagesByMatch, corePackagesById,
                                      corePackages>>
                  ELSE identify(fp.p, getResultId(fp.p, fp.p.packageStep),
                                fe.touched \cup fp.touched)
           finish(fe) ==
               IF ~fe.ok
               THEN Raise("ParseError", "prepare") /\ UNCHANGED <<uidGen, corePackagesByMatch,
                                                      corePackagesById, corePackages>>
               ELSE create(fe, finishPackage(f, self, fe, uidGen + 1))
       IN  finish(finishEnv(f, self))
    /\ UNCHANGED <<recipeSet, sandboxEnabled, DEBUG, files, warnDepends>>

-----------------------------------------------------------------------------
(* RecipeSet *)

\* sorted() of a set of names
RECURSIVE sortedNames(_)
sortedNames(S) ==
    IF S = {} THEN <<>>
    ELSE LET n == CHOOSE n \in S : \A o \in S : Rank(n) <= Rank(o)
         IN  <<n>> \o sortedNames(S \ {n})

Policies == [ mergeEnvironment |-> FALSE, uniqueDependency |-> FALSE,
              sandboxInvariant |-> FALSE ]

\* The recipe set after the YAML files were read: recipes and classes are
\* sets of YAML documents, env is the start environment of generatePackages
RecipeSet(recipes, classes, policies, env) ==
    [ recipes |-> [ n \in { y.name : y \in recipes } |->
                      collect(CHOOSE y \in recipes : y.name = n, TRUE) ],
      classes |-> [ n \in { y.name : y \in classes } |->
                      collect(CHOOSE y \in classes : y.name = n, FALSE) ],
      policies |-> policies,
      rootFilter |-> <<>>,
      env |-> env ]

\* RecipeSet.__parse: filteredRoots
filteredRoots(rootRecipes, rootFilter) ==
    { root \in rootRecipes : Len(rootFilter) = 0 \/ checkGlobs(root, rootFilter, FALSE) }

\* RecipeSet.__parse after the layers were read: resolve the classes of every
\* recipe and create the virtual root
Parse ==
    /\ UNCHANGED buildRun
    /\ status.state = "init"
    /\ LET parsed(res) ==
               LET resolved == [ n \in DOMAIN res |-> res[n].recipe ]
                   rootRecipes == { n \in DOMAIN res : res[n].recipe.root = True }
                   rootRecipe == createVirtualRoot(recipeSet,
                                     sortedNames(filteredRoots(rootRecipes, recipeSet.rootFilter)))
               IN  IF \E n \in DOMAIN res : ~res[n].ok
                   THEN Raise("ParseError", "resolveClasses") /\ UNCHANGED recipeSet
                   ELSE /\ recipeSet' = [ recipeSet EXCEPT
                                            !.recipes = ("" :> rootRecipe) @@ resolved ]
                        /\ status' = [ state |-> "parsed", msg |-> "" ]
                        /\ UNCHANGED <<frames, ret, packageCache, rootPackage>>
       IN  parsed([ n \in DOMAIN recipeSet.recipes |->
                      resolveClasses(recipeSet, recipeSet.recipes[n]) ])
    /\ UNCHANGED <<sandboxEnabled, DEBUG, files, warnDepends, corePackagesByMatch,
                   corePackagesById,
                   corePackages, uidGen>>

\* RecipeSet.__generatePackages when the persisted cache is missing or has
\* another cache key:
\* self.__rootRecipe.prepare(env, sandboxEnabled, states)
generatePackages ==
    /\ UNCHANGED buildRun
    /\ status.state = "parsed"
    /\ frames' = <<Frame("", recipeSet.env, <<>>, <<>>, <<>>)>>
    /\ status' = [ state |-> "running", msg |-> "" ]
    /\ UNCHANGED <<recipeSet, sandboxEnabled, DEBUG, files, warnDepends,
                   packageCache, rootPackage,
                   corePackagesByMatch,
                   corePackagesById, corePackages, uidGen, ret>>

-----------------------------------------------------------------------------
(* The recipe sets that are elaborated *)

\* the values of an environment variable: "0" .. NumVals - 1
Vals == { ToString(i) : i \in 0..(NumVals - 1) }

Universe(recipes, classes, policies, env, enabled) ==
    [ recipes |-> recipes, classes |-> classes, policies |-> policies, env |-> env,
      sandboxEnabled |-> enabled, rootFilter |-> <<>> ]

\* S1: a single root recipe
FamHello ==
    { Universe({ [ Yaml EXCEPT !.name = "hello", !.root = True,
                              !.packageScript = "echo hi" ] },
               {}, Policies, <<>>, FALSE) }

\* S3: app uses lib, named n times with the same use list
FamProvide ==
    { Universe({ [ Yaml EXCEPT !.name = "lib", !.packageScript = "true",
                              !.provideVars = << <<"LIB_PATH", Lit("/opt/lib")>> >> ],
                 [ Yaml EXCEPT !.name = "app", !.root = True,
                              !.depends = [ i \in 1..n |->
                                  Dependency("lib", <<>>, FALSE, use, NoTemplate) ],
                              !.packageVars = {"LIB_PATH"},
                              !.buildScript = build,
                              !.packageScript = "echo $LIB_PATH" ] },
               {}, [ Policies EXCEPT !.uniqueDependency = unique ], <<>>, FALSE) :
        n \in 1..MaxDup, build \in {None, "make"}, unique \in BOOLEAN,
        use \in { {"result", "environment"}, {"result", "deps"}, {"environment"} } }

\* S6: lib is reached from the two roots p1 and p2, which set X for it; lib
\* reads X as a package variable, for a provided variable, or not at all
FamDiamond ==
    { Universe({ [ Yaml EXCEPT !.name = "p1", !.root = True, !.packageScript = "true",
                              !.depends = <<Dependency("lib", << <<"X", x1>> >>, FALSE,
                                  {"result", "deps"}, NoTemplate)>> ],
                 [ Yaml EXCEPT !.name = "p2", !.root = True, !.packageScript = "true",
                              !.depends = <<Dependency("lib", << <<"X", x2>> >>, FALSE,
                                  {"result", "deps"}, NoTemplate)>> ],
                 [ Yaml EXCEPT !.name = "lib", !.packageScript = "true",
                              !.packageVars = IF mode = "strong" THEN {"X"} ELSE {},
                              !.packageVarsWeak = IF mode = "weak" THEN {"X"} ELSE {},
                              !.provideVars = IF mode = "provide"
                                              THEN << <<"Y", Var("X")>> >> ELSE <<>> ] },
               {}, Policies, <<>>, FALSE) :
        x1 \in Vals, x2 \in Vals, mode \in {"strong", "weak", "provide", "unused"} }

\* S4: compiler provides the tool cc (path $DIR, environment CC), mid uses
\* the tools of compiler and forwards them to obj, which runs cc; the roots
\* leaf and user depend on mid and set DIR for it
FamTools ==
    { Universe({ [ Yaml EXCEPT !.name = "compiler", !.packageScript = "true",
                              !.provideTools = << <<"cc",
                                  [ path |-> Var("DIR"), libs |-> <<>>,
                                    netAccess |-> FALSE,
                                    environment |-> << <<"CC", Lit("/usr/bin/cc")>> >>,
                                    fingerprintScript |-> "",
                                    fingerprintIf |-> NoTemplate ]>> >> ],
                 [ Yaml EXCEPT !.name = "obj", !.packageScript = "$CC -c",
                              !.packageTools = {"cc"} ],
                 [ Yaml EXCEPT !.name = "mid", !.packageScript = "true",
                              !.packageTools = IF midTool THEN {"cc"} ELSE {},
                              !.depends = <<Dependency("compiler", <<>>, TRUE, {"tools"},
                                                       NoTemplate),
                                            Dep("obj")>> ],
                 [ Yaml EXCEPT !.name = "leaf", !.root = True, !.packageScript = "true",
                              !.depends = <<Dependency("mid", << <<"DIR", d1>> >>, FALSE,
                                  {"result", "deps"}, NoTemplate)>> ],
                 [ Yaml EXCEPT !.name = "user", !.root = True, !.packageScript = "true",
                              !.depends = <<Dependency("mid", << <<"DIR", d2>> >>, FALSE,
                                  {"result", "deps"}, NoTemplate)>> ] },
               {}, Policies, <<>>, FALSE) :
        d1 \in Vals, d2 \in Vals, midTool \in BOOLEAN }

\* S5 (a and b depend on each other), and a cycle that depends on X: a
\* depends on b (with X = "0") if $X, b depends on a; the roots reach b and a
FamCycle ==
    { Universe({ [ Yaml EXCEPT !.name = "a", !.root = True, !.packageScript = "true",
                              !.depends = <<Dep("b")>> ],
                 [ Yaml EXCEPT !.name = "b", !.packageScript = "true",
                              !.depends = <<Dep("a")>> ] },
               {}, Policies, <<>>, FALSE) }
    \cup
    { Universe({ [ Yaml EXCEPT !.name = "a", !.buildScript = "make",
                              !.packageScript = "true",
                              !.depends = <<Dependency("b", << <<"X", "0">> >>, FALSE,
                                  {"result", "deps"}, Var("X"))>> ],
                 [ Yaml EXCEPT !.name = "b", !.packageScript = "true",
                              !.depends = <<Dep("a")>> ],
                 [ Yaml EXCEPT !.name = "p1", !.root = True, !.packageScript = "true",
                              !.depends = <<Dependency("b", << <<"X", x1>> >>, FALSE,
                                  {"result", "deps"}, NoTemplate)>> ],
                 [ Yaml EXCEPT !.name = "p2", !.root = True, !.packageScript = "true",
                              !.depends = <<Dependency("a", << <<"X", x2>> >>, FALSE,
                                  {"result", "deps"}, NoTemplate)>> ] },
               {}, Policies, <<>>, FALSE) :
        x1 \in Vals, x2 \in Vals }

\* a tool recipe: provides the tool `tool` (path bin, environment var=$W)
ToolRecipe(name, tool, var, netAccess, fingerprintScript) ==
    [ Yaml EXCEPT !.name = name, !.packageScript = "true",
                  !.provideTools = << <<tool,
                      [ path |-> Lit("bin"), libs |-> <<Lit("lib")>>,
                        netAccess |-> netAccess,
                        environment |-> << <<var, Var("W")>> >>,
                        fingerprintScript |-> fingerprintScript,
                        fingerprintIf |-> NoTemplate ]>> >> ]

\* a recipe that is built and packaged by the tools cc and ld with the
\* variables A and B
ObjRecipe(name) ==
    [ Yaml EXCEPT !.name = name, !.buildScript = "make", !.packageScript = "true",
                  !.buildVars = {"A"}, !.packageVars = {"B"},
                  !.buildVarsWeak = {"W"},
                  !.buildTools = {"cc"}, !.packageTools = {"ld"} ]

\* the roots p1 and p2 set up the same tools and variables for obj and obj2,
\* which are the same recipe under two names: p2 with another weak variable W
\* (and so another tool environment), another netAccess and fingerprint
\* script of cc, in another order, or with another value of A
FamDigest ==
    { Universe({ ToolRecipe("tcc", "cc", "CC", FALSE, ""),
                 ToolRecipe("tcc2", "cc", "CC", TRUE, "fp"),
                 ToolRecipe("tld", "ld", "C", FALSE, ""),
                 ObjRecipe("obj"), ObjRecipe("obj2"),
                 [ Yaml EXCEPT !.name = "p1", !.root = True, !.packageScript = "true",
                     !.environment = << <<"W", Lit("0")>> >>,
                     !.depends = <<Dependency("tcc", <<>>, TRUE, {"tools"}, NoTemplate),
                                   Dependency("tld", <<>>, TRUE, {"tools"}, NoTemplate),
                                   Dependency("obj", << <<"A", "0">>, <<"B", "1">> >>,
                                       FALSE, {"result", "deps"}, NoTemplate)>> ],
                 [ Yaml EXCEPT !.name = "p2", !.root = True, !.packageScript = "true",
                     !.environment = << <<"W", Lit(w)>> >>,
                     !.depends =
                         (IF swap
                          THEN <<Dependency("tld", <<>>, TRUE, {"tools"}, NoTemplate),
                                 Dependency(IF alt THEN "tcc2" ELSE "tcc", <<>>, TRUE,
                                            {"tools"}, NoTemplate)>>
                          ELSE <<Dependency(IF alt THEN "tcc2" ELSE "tcc", <<>>, TRUE,
                                            {"tools"}, NoTemplate),
                                 Dependency("tld", <<>>, TRUE, {"tools"}, NoTemplate)>>)
                         \o <<Dependency("obj2",
                                 IF swap THEN << <<"B", "1">>, <<"A", a>> >>
                                 ELSE << <<"A", a>>, <<"B", "1">> >>,
                                 FALSE, {"result", "deps"}, NoTemplate)>> ] },
               {}, Policies, <<>>, FALSE) :
        w \in Vals, a \in Vals, swap \in BOOLEAN, alt \in BOOLEAN }

\* r takes the sandbox of sbx and depends on cons, which is built from the
\* result of fp; fp has a fingerprint script
FamSandbox ==
    { Universe({ [ Yaml EXCEPT !.name = "sbx", !.packageScript = "true",
                     !.provideSandbox = <<[ paths |-> <<"/bin">>, mount |-> <<>>,
                                            environment |-> <<>> ]>> ],
                 [ Yaml EXCEPT !.name = "fp", !.packageScript = "true",
                     !.fingerprintScript = "uname", !.fingerprintIf = fpIf ],
                 [ Yaml EXCEPT !.name = "cons", !.buildScript = "make",
                     !.packageScript = "true", !.depends = <<Dep("fp")>> ],
                 [ Yaml EXCEPT !.name = "r", !.root = True, !.packageScript = "true",
                     !.depends = (IF useSbx
                                  THEN <<Dependency("sbx", <<>>, TRUE, {"sandbox"},
                                                    NoTemplate)>>
                                  ELSE <<>>) \o <<Dep("cons")>> ] },
               {}, [ Policies EXCEPT !.sandboxInvariant = invariant ], <<>>, enabled) :
        fpIf \in {Lit(True), Lit(False), Absent}, useSbx \in BOOLEAN,
        invariant \in BOOLEAN, enabled \in BOOLEAN }

\* r inherits class c; the class may have a checkout script, the recipe may
\* have an SCM whose condition is absent or $X, and a package script
FamCheckout ==
    { Universe({ [ Yaml EXCEPT !.name = "r", !.root = True, !.inherit = <<"c">>,
                     !.environment = << <<"X", Lit(x)>> >>,
                     !.checkoutSCM = scm, !.packageScript = pkg ] },
               { [ Yaml EXCEPT !.name = "c", !.checkoutScript = cs ] },
               Policies, <<>>, FALSE) :
        x \in Vals, cs \in {None, "git pull"}, pkg \in {None, "true"},
        scm \in { <<>>,
                  <<ScmSpec(Lit("url"), <<"src">>, NoTemplate, TRUE)>>,
                  <<ScmSpec(Lit("url"), <<"src">>, Var("X"), TRUE)>> } }

\* shr, which may be shared, takes the result of dep for its build step or
\* without one, or the tool cc of dep for its package step or for a checkout
\* step that it declares deterministic; the checkout of dep has a script and
\* declares checkoutDeterministic or not, has an SCM that is deterministic or
\* not, and may inherit class k, whose checkout script comes with or without
\* a declaration
FamShared ==
    { Universe({ [ Yaml EXCEPT !.name = "dep",
                     !.inherit = IF cls = "none" THEN <<>> ELSE <<"k">>,
                     !.checkoutScript = cs, !.checkoutDeterministic = cd,
                     !.checkoutSCM = scm, !.buildScript = "make",
                     !.packageScript = "true",
                     !.provideTools = << <<"cc", AbstractTool(Lit("bin"))>> >> ],
                 [ Yaml EXCEPT !.name = "shr", !.root = True, !.shared = shared,
                     !.checkoutScript = IF mode = "checkout" THEN "fetch" ELSE None,
                     !.checkoutDeterministic = IF mode = "checkout" THEN True ELSE None,
                     !.checkoutTools = IF mode = "checkout" THEN {"cc"} ELSE {},
                     !.buildScript = IF mode = "build" THEN "make" ELSE None,
                     !.packageScript = "true",
                     !.packageTools = IF mode = "tools" THEN {"cc"} ELSE {},
                     !.depends = <<Dependency("dep", <<>>, FALSE,
                                      IF mode \in {"tools", "checkout"}
                                      THEN {"tools"} ELSE {"result"},
                                      NoTemplate)>> ] },
               { [ Yaml EXCEPT !.name = "k", !.checkoutScript = "git pull",
                     !.checkoutDeterministic =
                         IF cls = "declared" THEN True ELSE None ] },
               Policies, <<>>, FALSE) :
        cls \in {"none", "undeclared", "declared"},
        cs \in {None, "wget"}, cd \in {None, True, False},
        scm \in { <<>>,
                  <<ScmSpec(Lit("url"), <<"src">>, NoTemplate, TRUE)>>,
                  <<ScmSpec(Lit("url"), <<"src">>, NoTemplate, FALSE)>> },
        shared \in {None, True},
        mode \in {"build", "package", "tools", "checkout"} }

\* q is one package of a multiPackage file or a plain recipe and inherits
\* some of the classes c1, c2 and c3, which inherit one another
FamClasses ==
    { Universe({ [ Yaml EXCEPT !.name = "q", !.root = True, !.packageScript = "true",
                     !.inherit = iq, !.multiPackage = anon ] },
               { [ Yaml EXCEPT !.name = "c1", !.inherit = i1 ],
                 [ Yaml EXCEPT !.name = "c2", !.inherit = i2 ],
                 [ Yaml EXCEPT !.name = "c3", !.inherit = i3 ] },
               Policies, <<>>, FALSE) :
        iq \in { <<"c1">>, <<"c1", "c2">>, <<"c2", "c1">>, <<"c3", "c1">> },
        anon \in { <<>>, <<[ Yaml EXCEPT !.name = "q#1" ]>>,
                   <<[ Yaml EXCEPT !.name = "q#1", !.inherit = <<"c3">> ]>> },
        i1 \in { <<>>, <<"c2">>, <<"c3">>, <<"c2", "c3">>, <<"c1">> },
        i2 \in { <<>>, <<"c3">>, <<"c1">> },
        i3 \in { <<>>, <<"c1">> } }

\* kid inherits the class par; both define K in their environment, kid
\* also J as $K; the root p1 sets K for kid or leaves it unset
\* user names lib twice and sets X for each occurrence; lib reads X as a
\* package variable or not at all; the second occurrence has a condition
FamDup ==
    { Universe({ [ Yaml EXCEPT !.name = "user", !.root = True, !.buildScript = "make",
                     !.packageScript = "true",
                     !.depends = <<Dependency("lib", << <<"X", x1>> >>, FALSE,
                                      {"result"}, NoTemplate),
                                   Dependency("lib", << <<"X", x2>> >>, FALSE,
                                      {"result"}, cond)>> ],
                 [ Yaml EXCEPT !.name = "lib", !.packageScript = "true",
                     !.packageVars = pv ] },
               {}, [ Policies EXCEPT !.uniqueDependency = unique ], <<>>, FALSE) :
        x1 \in Vals, x2 \in Vals, pv \in {{}, {"X"}},
        cond \in {NoTemplate, Lit("0")}, unique \in BOOLEAN }

\* the directories of the SCMs
Dirs ==
    { <<".">>, <<"a">>, <<"a", "b">>, <<"b">>, <<"", "a">>, <<"a", "..", "b">>,
      <<"a", "">> }

\* r takes an SCM from its class c and has one of its own, which may be
\* switched off
FamScm ==
    { Universe({ [ Yaml EXCEPT !.name = "r", !.root = True, !.inherit = <<"c">>,
                     !.checkoutSCM = <<ScmSpec(Lit("url"), d2, cond, TRUE)>>,
                     !.packageScript = "true" ] },
               { [ Yaml EXCEPT !.name = "c",
                     !.checkoutSCM = <<ScmSpec(Lit("url"), d1, NoTemplate, TRUE)>> ] },
               Policies, <<>>, FALSE) :
        d1 \in Dirs, d2 \in Dirs, cond \in {NoTemplate, Lit("0")} }

\* the roots p1 and p2 take the sandbox of sbx; each may have a fingerprint
\* script, and the rootFilter setting may select among them
FamRoots ==
    { [ Universe({ [ Yaml EXCEPT !.name = "sbx", !.packageScript = "true",
                       !.provideSandbox = <<[ paths |-> <<"/bin">>, mount |-> <<>>,
                                              environment |-> <<>> ]>> ],
                   [ Yaml EXCEPT !.name = "p1", !.root = True, !.packageScript = "true",
                       !.fingerprintScript = f1,
                       !.fingerprintIf = IF f1 = None THEN Absent ELSE Lit(True),
                       !.depends = <<Dependency("sbx", <<>>, FALSE, {"sandbox"},
                                                NoTemplate)>> ],
                   [ Yaml EXCEPT !.name = "p2", !.root = True, !.packageScript = s2,
                       !.fingerprintScript = f2,
                       !.fingerprintIf = IF f2 = None THEN Absent ELSE Lit(True),
                       !.depends = <<Dependency("sbx", <<>>, FALSE, {"sandbox"},
                                                NoTemplate)>> ] },
                 {}, Policies, <<>>, TRUE) EXCEPT !.rootFilter = rf ] :
        f1 \in {None, "uname"}, f2 \in {None, "uname"}, s2 \in {"true", "tar"},
        rf \in { <<>>, <<Glob("p1")>>, <<Glob("p1"), Glob("p2")>>,
                 <<Glob("p1"), Glob("p2"), NotGlob("p1")>> } }

FamMergeEnv ==
    { Universe({ [ Yaml EXCEPT !.name = "p1", !.root = True, !.packageScript = "true",
                     !.depends = <<Dependency("kid", input, FALSE, {"result"},
                                      NoTemplate)>> ],
                 [ Yaml EXCEPT !.name = "kid", !.inherit = <<"par">>,
                     !.environment = << <<"K", ck>>, <<"J", Var("K")>> >>,
                     !.packageScript = "true", !.packageVars = {"J", "K"} ] },
               { [ Yaml EXCEPT !.name = "par",
                     !.environment = << <<"K", pk>> >> ] },
               [ Policies EXCEPT !.mergeEnvironment = merge ], <<>>, FALSE) :
        input \in {<<>>} \cup { << <<"K", x>> >> : x \in Vals },
        ck \in {Lit("C"), Var("K")}, pk \in {Lit("P"), Var("K")},
        merge \in BOOLEAN }

\* app depends on lib, which provides the variable LIB_PATH and the tool
\* cc, and then on obj; lib is used with some of environment and tools, with
\* or without forward
FamForward ==
    { Universe({ [ Yaml EXCEPT !.name = "lib", !.packageScript = "true",
                     !.provideVars = << <<"LIB_PATH", Lit("/opt/lib")>> >>,
                     !.provideTools = << <<"cc", AbstractTool(Lit("bin"))>> >> ],
                 [ Yaml EXCEPT !.name = "obj", !.packageScript = "true",
                     !.packageVars = {"LIB_PATH"}, !.packageTools = {"cc"} ],
                 [ Yaml EXCEPT !.name = "app", !.root = True, !.packageScript = "true",
                     !.packageVars = {"LIB_PATH"}, !.packageTools = {"cc"},
                     !.depends = <<Dependency("lib", <<>>, fwd, use, NoTemplate),
                                   Dependency("obj", env, FALSE, {"result"},
                                              NoTemplate)>> ] },
               {}, Policies, <<>>, FALSE) :
        fwd \in BOOLEAN, use \in SUBSET {"environment", "tools"},
        env \in { <<>>, << <<"X", "0">> >> } }

\* r takes the sandbox of sbx, with or without forward, and then depends on
\* cons; the sandbox declares no variable, CC or LIB_PATH
FamSandboxEnv ==
    { Universe({ [ Yaml EXCEPT !.name = "sbx", !.packageScript = "true",
                     !.provideSandbox = <<[ paths |-> <<"/bin">>, mount |-> <<>>,
                                            environment |-> environment ]>> ],
                 [ Yaml EXCEPT !.name = "cons", !.packageScript = "true",
                     !.packageVars = {"C", "CC"} ],
                 [ Yaml EXCEPT !.name = "r", !.root = True, !.packageScript = "true",
                     !.packageVars = {"C", "CC"},
                     !.depends = <<Dependency("sbx", <<>>, fwd, {"sandbox"}, NoTemplate),
                                   Dependency("cons", <<>>, FALSE, {"result"},
                                              NoTemplate)>> ] },
               {}, Policies, <<>>, enabled) :
        environment \in { <<>>, << <<"CC", Lit("gcc")>> >>,
                          << <<"LIB_PATH", Lit("/lib")>> >> },
        fwd \in BOOLEAN, enabled \in BOOLEAN }

\* m1 and m2 depend on base, set X for it and provide it upwards; top
\* depends on m1 and m2, may provide them upwards, and may depend on base
\* itself, before or after them
FamIndirect ==
    { Universe({ [ Yaml EXCEPT !.name = "base", !.packageScript = "true",
                     !.packageVars = pv ],
                 [ Yaml EXCEPT !.name = "m1", !.packageScript = "true",
                     !.provideDeps = {"base"},
                     !.depends = <<Dependency("base", << <<"X", x1>> >>, FALSE,
                                      {"result"}, NoTemplate)>> ],
                 [ Yaml EXCEPT !.name = "m2", !.packageScript = "true",
                     !.provideDeps = {"base"},
                     !.depends = <<Dependency("base", << <<"X", x2>> >>, FALSE,
                                      {"result"}, NoTemplate)>> ],
                 [ Yaml EXCEPT !.name = "top", !.root = True, !.buildScript = "make",
                     !.packageScript = "true",
                     !.provideDeps = IF prov THEN {"m1", "m2"} ELSE {},
                     !.depends =
                         (IF place = "first"
                          THEN <<Dependency("base", << <<"X", "0">> >>, FALSE,
                                            {"result"}, NoTemplate)>> ELSE <<>>)
                         \o <<Dep("m1"), Dep("m2")>> \o
                         (IF place = "last"
                          THEN <<Dependency("base", << <<"X", "0">> >>, FALSE,
                                            {"result"}, NoTemplate)>> ELSE <<>>) ] },
               {}, Policies, <<>>, FALSE) :
        x1 \in Vals, x2 \in Vals, pv \in {{}, {"X"}}, prov \in BOOLEAN,
        place \in {"none", "first", "last"} }

\* a tool with a fingerprint script and a fingerprintIf condition
FingerprintTool(script, cond) ==
    [ path |-> Lit("bin"), libs |-> <<>>, netAccess |-> FALSE, environment |-> <<>>,
      fingerprintScript |-> script, fingerprintIf |-> cond ]

\* fpr takes the tools cc and ld, which have fingerprint scripts with the
\* conditions c1 and c2, and has a fingerprint script of its own with the
\* condition c3; it uses the tools for its package step only, for its build
\* step too, or ld for the build step and cc for the package step
FamFingerprint ==
    { Universe({ [ Yaml EXCEPT !.name = "tcc", !.packageScript = "true",
                     !.provideTools = << <<"cc", FingerprintTool("fcc", c1)>> >> ],
                 [ Yaml EXCEPT !.name = "tld", !.packageScript = "true",
                     !.provideTools = << <<"ld", FingerprintTool("fld", c2)>> >> ],
                 [ Yaml EXCEPT !.name = "fpr", !.root = True,
                     !.environment = << <<"X", Lit(x)>> >>,
                     !.depends = <<Dependency("tld", <<>>, FALSE, {"tools"}, NoTemplate),
                                   Dependency("tcc", <<>>, FALSE, {"tools"}, NoTemplate)>>,
                     !.buildScript = IF mode = "package" THEN None ELSE "make",
                     !.packageScript = "true",
                     !.buildTools = CASE mode = "package" -> {}
                                      [] mode = "build" -> {"cc", "ld"}
                                      [] OTHER -> {"ld"},
                     !.packageTools = CASE mode = "package" -> {"cc", "ld"}
                                        [] mode = "build" -> {}
                                        [] OTHER -> {"cc"},
                     !.fingerprintScript = "uname", !.fingerprintIf = c3 ] },
               {}, Policies, <<>>, FALSE) :
        x \in Vals, mode \in {"package", "build", "split"},
        c1 \in {NoTemplate, Lit(True), Lit(False), Var("X")},
        c2 \in {NoTemplate, Lit(False), Var("X")},
        c3 \in {Absent, Lit(True), Lit(False)} }

\* the roots p1 and p2 depend on obj, which depends on lib; p1 forwards the
\* tool cc of tcc to obj, and the sandbox of sbx too or not; p2 forwards cc or
\* nothing; obj filters its tools (keeping ld, or cc) or not, drops the
\* sandbox if it gets one, and uses cc or no tool
FamFilter ==
    { Universe({ [ Yaml EXCEPT !.name = "tcc", !.packageScript = "true",
                     !.provideTools = << <<"cc", AbstractTool(Lit("bin"))>> >> ],
                 [ Yaml EXCEPT !.name = "sbx", !.packageScript = "true",
                     !.provideSandbox = <<[ paths |-> <<"/bin">>, mount |-> <<>>,
                                            environment |-> <<>> ]>> ],
                 [ Yaml EXCEPT !.name = "lib", !.packageScript = "true" ],
                 [ Yaml EXCEPT !.name = "obj", !.buildScript = "make",
                     !.packageScript = "true",
                     !.filterTools = ft,
                     !.filterSandbox = IF sb THEN <<<<Glob("lib")>>>> ELSE <<>>,
                     !.packageTools = IF uses THEN {"cc"} ELSE {},
                     !.depends = <<Dep("lib")>> ],
                 [ Yaml EXCEPT !.name = "p1", !.root = True, !.packageScript = "true",
                     !.depends = <<Dependency("tcc", <<>>, TRUE, {"tools"}, NoTemplate)>>
                         \o (IF sb THEN <<Dependency("sbx", <<>>, TRUE, {"sandbox"},
                                                      NoTemplate)>> ELSE <<>>)
                         \o <<Dep("obj")>> ],
                 [ Yaml EXCEPT !.name = "p2", !.root = True, !.packageScript = "true",
                     !.depends = (IF both
                                  THEN <<Dependency("tcc", <<>>, TRUE, {"tools"},
                                                    NoTemplate)>> ELSE <<>>)
                         \o <<Dep("obj")>> ] },
               {}, Policies, <<>>, FALSE) :
        ft \in { <<>>, <<<<Glob("ld")>>>>, <<<<Glob("cc")>>>> },
        sb \in BOOLEAN, uses \in BOOLEAN, both \in BOOLEAN }

\* the roots u1 and u2 depend on nb and set X for it; nb, with or without a
\* build script, uses the result of part, whose package step depends on X
FamNoBuild ==
    { Universe({ [ Yaml EXCEPT !.name = "part", !.packageScript = "true",
                              !.packageVars = {"X"} ],
                 [ Yaml EXCEPT !.name = "nb", !.packageScript = "true",
                              !.buildScript = bs,
                              !.depends = <<Dependency("part", <<>>, FALSE,
                                  {"result"}, NoTemplate)>> ],
                 [ Yaml EXCEPT !.name = "u1", !.root = True, !.packageScript = "true",
                              !.depends = <<Dependency("nb", << <<"X", x1>> >>, FALSE,
                                  {"result", "deps"}, NoTemplate)>> ],
                 [ Yaml EXCEPT !.name = "u2", !.root = True, !.packageScript = "true",
                              !.depends = <<Dependency("nb", << <<"X", x2>> >>, FALSE,
                                  {"result", "deps"}, NoTemplate)>> ] },
               {}, Policies, <<>>, FALSE) :
        x1 \in Vals, x2 \in Vals, bs \in {None, "make"} }

Universes ==
    FamNoBuild \cup FamFilter \cup FamForward \cup FamSandboxEnv \cup FamIndirect \cup FamFingerprint \cup
    FamHello \cup FamProvide \cup FamDiamond \cup FamTools \cup FamCycle
    \cup FamDigest \cup FamSandbox \cup FamCheckout \cup FamShared
    \cup FamClasses \cup FamMergeEnv \cup FamDup
    \cup FamScm \cup FamRoots

\* commonBuildDevelop was not called
NotBuilding ==
    [ pc |-> "idle", hooks |-> [ preBuildHook |-> None, postBuildHook |-> None ],
      jobs |-> 1, backlog |-> <<>>, providedBacklog |-> <<>>, results |-> <<>>,
      success |-> FALSE, exit |-> None, cooked |-> 0, tui |-> 1, exc |-> None,
      log |-> <<>> ]

Init ==
    \E u \in Universes, pkgck \in BOOLEAN, persisted \in BOOLEAN :
        /\ recipeSet = [ RecipeSet(u.recipes, u.classes, u.policies, u.env)
                           EXCEPT !.rootFilter = u.rootFilter ]
        /\ sandboxEnabled = u.sandboxEnabled
        /\ DEBUG = [ pkgck |-> pkgck ]
        /\ files = [ recipes |-> u.recipes, classes |-> u.classes ]
        /\ warnDepends = {}
        /\ packageCache = IF persisted THEN <<[ cacheKey |-> <<>>, result |-> 0 ]>>
                          ELSE <<>>
        /\ rootPackage = <<>>
        /\ corePackagesByMatch = [ n \in { y.name : y \in u.recipes } \cup {""} |-> <<>> ]
        /\ corePackagesById = [ n \in { y.name : y \in u.recipes } \cup {""} |-> <<>> ]
        /\ corePackages = <<>>
        /\ uidGen = 0
        /\ frames = <<>>
        /\ ret = <<>>
        /\ status = [ state |-> "init", msg |-> "" ]
        /\ buildRun = NotBuilding

Next ==
    \/ Parse
    \/ generatePackages
    \/ PrepareEnter
    \/ DepNext
    \/ DepReturn
    \/ PrepareFinish

Spec == Init /\ [][Next]_vars

-----------------------------------------------------------------------------
(* Memoization *)

\* a prepare call returns in this step
Returns == Running /\ Len(frames') = Len(frames) - 1 /\ ret' # <<>>

\* matcher m agrees with the arguments of the call of frame f: same value for
\* every touched env name, same Variant-Id for every touched tool name, same
\* input sandbox Variant-Id (the plugin states are empty)
C1_Agrees(m, f) ==
    /\ \A name \in DOMAIN m.env : get(f.inputEnv, name) = m.env[name]
    /\ \A name \in DOMAIN m.tools : toolVariantId(f.callTools, name) = m.tools[name]
    /\ sandboxVariantId(f.inputSandbox) = m.sandbox

\* C1: a prepare call whose arguments a stored matcher of the recipe agrees
\* with returns, when it returns, the CorePackage held by that matcher, and
\* the recipe's matcher list and Result-Id table are as before the call.
C1_MemoHit ==
    [][ Returns =>
          LET f == top(frames)
              ms == corePackagesByMatch[f.recipe]
          IN  \A i \in DOMAIN ms :
                  C1_Agrees(ms[i], f) =>
                      /\ ret'[1].p = ms[i].corePackage
                      /\ corePackagesByMatch'[f.recipe] = ms
                      /\ corePackagesById'[f.recipe] = corePackagesById[f.recipe]
      ]_vars

\* p2 got lib from the matcher that the call from p1 stored
C1_Witness ==
    /\ ~DEBUG.pkgck
    /\ Running
    /\ top(frames).recipe = "p2"
    /\ top(frames).pc = "call"
    /\ ret # <<>>
    /\ Len(corePackagesByMatch["p1"]) = 1
    /\ Len(corePackagesByMatch["lib"]) = 1
    /\ ret[1].p = corePackagesByMatch["lib"][1].corePackage

\* the call at the top of the stack is about to leave the dependency loop
AtFinish ==
    /\ Running
    /\ top(frames).pc = "deps"
    /\ top(frames).depIdx > Len(recipeSet.recipes[top(frames).recipe].deps)

\* the call at the top of the stack is about to make the steps of its package
AtPackageSteps ==
    /\ AtFinish
    /\ finishEnv(top(frames), recipeSet.recipes[top(frames).recipe]).ok

\* the package that the call at the top of the stack elaborates from its
\* current inputs
freshPackage ==
    LET f == top(frames)
        self == recipeSet.recipes[f.recipe]
    IN  finishPackage(f, self, finishEnv(f, self), uidGen + 1).p

variantIds(p) ==
    <<p.checkoutStep.variantId, p.buildStep.variantId, p.packageStep.variantId>>

\* C2 as stated: when a call that a matcher answered is elaborated anew (as
\* DEBUG['pkgck'] does), the fresh package has the checkout, build and package
\* step Variant-Ids of the package the matcher holds.
C2_HitEqualsFresh ==
    AtFinish /\ top(frames).reusedCorePackage # <<>>
        /\ finishEnv(top(frames), recipeSet.recipes[top(frames).recipe]).ok
    => variantIds(freshPackage)
           = variantIds(corePackages[top(frames).reusedCorePackage[1]])

\* C3 as stated: two packages of the same recipe that prepare returned and
\* whose package steps have the same Variant-Id are the same instance.
C3_SameVariantSameInstance ==
    \A i, j \in DOMAIN corePackages :
        /\ corePackages[i].recipe = corePackages[j].recipe
        /\ corePackages[i].packageStep.variantId = corePackages[j].packageStep.variantId
        => i = j

\* C3, amended: two packages of the same recipe that prepare returned and
\* whose package steps have the same Result-Id are the same instance.
C3_SameResultSameInstance ==
    \A i, j \in DOMAIN corePackages :
        /\ corePackages[i].recipe = corePackages[j].recipe
        /\ getResultId(corePackages[i], corePackages[i].packageStep)
               = getResultId(corePackages[j], corePackages[j].packageStep)
        => i = j

\* lib was elaborated twice (X is a weak variable that differs) and the
\* second elaboration got the instance of the first from the Result-Id table
C3_Witness ==
    /\ "lib" \in DOMAIN corePackagesByMatch
    /\ Len(corePackagesByMatch["lib"]) = 2
    /\ Len(corePackagesById["lib"]) = 1
    /\ corePackagesByMatch["lib"][1].env # corePackagesByMatch["lib"][2].env
    /\ corePackagesByMatch["lib"][1].corePackage
           = corePackagesByMatch["lib"][2].corePackage

-----------------------------------------------------------------------------
(* Cycles *)

Terminated == status.state \in {"done", "ParseError", "AssertionError", "ValueError"}

\* the names of the packages that package pkgId depends on, transitively
RECURSIVE reachNames(_)
reachNames(pkgId) ==
    LET direct == { destOf(corePackages[pkgId].directDepSteps[i]).pkgId :
                      i \in DOMAIN corePackages[pkgId].directDepSteps }
    IN  UNION { {corePackages[q].recipe} \cup reachNames(q) : q \in direct }

\* how far the call of frame fs[i] has come: before the matcher loop, at
\* dependency depIdx, in its prepare call, back from that call
position(fs, i) ==
    IF fs[i].pc = "enter" THEN 0
    ELSE 4 * fs[i].depIdx
         + (IF fs[i].pc # "call" THEN 0 ELSE IF i = Len(fs) /\ ret # <<>> THEN 2 ELSE 1)

\* the run as a path in the call tree: the phase, then the position of every
\* active call, outermost first
progress ==
    <<CASE status.state = "init" -> 0
        [] status.state = "parsed" -> 1
        [] status.state = "running" -> 2
        [] OTHER -> 3>>
    \o [ i \in DOMAIN frames |-> position(frames, i) ]

\* v is before w in the lexicographic order (a proper prefix is before)
LexLess(v, w) ==
    \E k \in DOMAIN w :
        /\ \A j \in 1..(k - 1) : j \in DOMAIN v /\ v[j] = w[j]
        /\ k \in DOMAIN v => v[k] < w[k]

\* some action can be taken
CanStep ==
    \/ status.state \in {"init", "parsed"}
    \/ Running /\ top(frames).pc \in {"enter", "deps"}
    \/ Running /\ top(frames).pc = "call" /\ ret # <<>>

\* C4: the elaboration terminates - every step moves the run forward in the
\* call tree, whose depth is at most the number of recipes because no recipe
\* is entered while it is active, and whose width is the number of
\* dependencies; the run stops only with a result or an error - and no package
\* that prepare returned depends on a package of its own recipe: a recipe
\* that reaches itself through dependencies whose conditions hold ends the
\* run with a ParseError.
C4_CyclesRaise ==
    /\ [][LexLess(progress, progress')]_vars
    /\ [](/\ Terminated \/ CanStep
          /\ \A i, j \in DOMAIN frames :
                 frames[i].recipe = frames[j].recipe => i = j
          /\ \A i \in DOMAIN frames :
                 frames[i].depIdx <= Len(recipeSet.recipes[frames[i].recipe].deps) + 1
          /\ \A pkgId \in DOMAIN corePackages :
                 corePackages[pkgId].recipe \notin reachNames(pkgId))

\* the cycle a -> b -> a was found at a matcher hit for b
C4_Witness ==
    /\ status = [ state |-> "ParseError", msg |-> "Recipes are cyclic" ]
    /\ "b" \in DOMAIN corePackagesByMatch
    /\ \E i \in DOMAIN corePackagesByMatch["b"] :
           "a" \in corePackagesByMatch["b"][i].subTreePackages

-----------------------------------------------------------------------------
(* Variant-Ids *)

\* the steps of the packages that prepare returned
AllSteps == (DOMAIN corePackages) \X {"src", "build", "dist"}

stepAt(s) ==
    CASE s[2] = "src" -> corePackages[s[1]].checkoutStep
      [] s[2] = "build" -> corePackages[s[1]].buildStep
      [] OTHER -> corePackages[s[1]].packageStep

\* what C5 lets the Variant-Id of step s depend on
C5_Inputs(s) ==
    LET p == corePackages[s[1]]
        step == stepAt(s)
        tools == getTools(p, step)
        toolNames == sortedNames(keys(tools))
        env == step.digestEnv
        envNames == sortedNames(keys(env))
        sandbox == getSandbox(p, step, FALSE)
        dests == [ i \in DOMAIN step.args |-> refGetDestination(step.args[i], p) ]
        args == SelectSeq(dests, LAMBDA a : a.isValid)
    IN  [ script |-> getDigestScript(p, step),
          digestEnv |-> [ i \in DOMAIN envNames |-> <<envNames[i], get(env, envNames[i])>> ],
          tools |-> [ i \in DOMAIN toolNames |->
                        LET tool == getitem(tools, toolNames[i])
                        IN  [ variantId |-> sliceRecipes(coreStepOf(tool.coreStep, p).variantId),
                              path |-> tool.path, libs |-> tool.libs ] ],
          args |-> [ i \in DOMAIN args |-> args[i].variantId ],
          sandbox |-> IF sandbox = <<>> THEN <<>>
                      ELSE <<[ fingerprinted |-> isFingerprinted(p, step),
                               invariant |-> recipeSet.policies.sandboxInvariant,
                               variantId |-> sliceRecipes(
                                   coreStepOf(sandbox[1].coreStep, p).variantId),
                               paths |-> sandbox[1].paths ]>> ]

\* C5: two steps that agree on the digest script, the digestEnv, the
\* name-sorted tool table (Variant-Id recipe slice, path and libs of each
\* tool), the Variant-Ids of the valid arguments and the sandbox contribution
\* have the same Variant-Id, whatever else differs between them.
C5_VariantIdInputs ==
    \A s, t \in AllSteps :
        C5_Inputs(s) = C5_Inputs(t) => stepAt(s).variantId = stepAt(t).variantId

\* obj and obj2 have the same package step Variant-Id although their weak
\* variable W, the environment, netAccess and fingerprint script of their
\* tool cc, and the order of their digestEnv and of their tools differ
C5_Witness ==
    \E i, j \in DOMAIN corePackages :
        LET p == corePackages[i]
            q == corePackages[j]
            cc1 == get(p.tools, "cc")
            cc2 == get(q.tools, "cc")
        IN  /\ p.recipe = "obj" /\ q.recipe = "obj2"
            /\ p.packageStep.variantId = q.packageStep.variantId
            /\ p.buildStep.variantId = q.buildStep.variantId
            /\ get(p.buildStep.env, "W") # get(q.buildStep.env, "W")
            /\ cc1.environment # cc2.environment
            /\ cc1.netAccess # cc2.netAccess
            /\ cc1.fingerprintScript # cc2.fingerprintScript
            /\ p.packageStep.digestEnv # q.packageStep.digestEnv
            /\ getTools(p, p.packageStep) # getTools(q, q.packageStep)

\* C6 as stated: the Variant-Id of a step has 40 bytes if the step is
\* fingerprinted and has a sandbox, and 20 bytes in every other case.
C6_LengthByFingerprint ==
    \A s \in AllSteps :
        byteLen(stepAt(s).variantId) =
            IF /\ isFingerprinted(corePackages[s[1]], stepAt(s))
               /\ getSandbox(corePackages[s[1]], stepAt(s), FALSE) # <<>>
            THEN 2 * SHA1_SIZE ELSE SHA1_SIZE

\* step s has a valid argument whose Variant-Id has a host part
hostArgs(s) ==
    \E i \in DOMAIN stepAt(s).args :
        LET arg == refGetDestination(stepAt(s).args[i], corePackages[s[1]])
        IN  arg.isValid /\ byteLen(arg.variantId) = 2 * SHA1_SIZE

\* C6, amended: the Variant-Id of a step has 40 bytes if the step is
\* fingerprinted and has a sandbox or if one of its valid arguments has a
\* Variant-Id of 40 bytes, and 20 bytes in every other case.
C6_LengthByHostPart ==
    \A s \in AllSteps :
        byteLen(stepAt(s).variantId) =
            IF \/ /\ isFingerprinted(corePackages[s[1]], stepAt(s))
                  /\ getSandbox(corePackages[s[1]], stepAt(s), FALSE) # <<>>
               \/ hostArgs(s)
            THEN 2 * SHA1_SIZE ELSE SHA1_SIZE

\* the build step of cons is not fingerprinted and has 40 bytes, from the
\* package step of fp, which is fingerprinted in the sandbox
C6_Witness ==
    \E s, t \in AllSteps :
        /\ corePackages[s[1]].recipe = "cons" /\ s[2] = "build"
        /\ ~isFingerprinted(corePackages[s[1]], stepAt(s))
        /\ byteLen(stepAt(s).variantId) = 2 * SHA1_SIZE
        /\ corePackages[t[1]].recipe = "fp" /\ t[2] = "dist"
        /\ isFingerprinted(corePackages[t[1]], stepAt(t))
        /\ getSandbox(corePackages[t[1]], stepAt(t), FALSE) # <<>>
        /\ byteLen(stepAt(t).variantId) = 2 * SHA1_SIZE

-----------------------------------------------------------------------------
(* Dependencies *)

\* the names that the dependency list of recipe `self` gives more than once
\* with `use: [result]` and without a condition
usedTwice(self) ==
    { self.deps[i].recipe : i \in { i \in DOMAIN self.deps :
        /\ self.deps[i].useBuildResult
        /\ self.deps[i].condition = NoTemplate
        /\ \E j \in DOMAIN self.deps :
               j # i /\ self.deps[j].recipe = self.deps[i].recipe
                     /\ self.deps[j].useBuildResult
                     /\ self.deps[j].condition = NoTemplate } }

\* how often the package step of a package named `name` is among args
countArgs(args, name) ==
    Cardinality({ i \in DOMAIN args :
        destOf(args[i]).label = "dist" /\ refName(args[i], NoPkg) = name })

\* C7 as stated: a dependency that is named more than once with
\* `use: [result]` is exactly once among the args of the steps of the package.
C7_ResultOnceInArgs ==
    \A pkgId \in DOMAIN corePackages :
        \A name \in usedTwice(recipeSet.recipes[corePackages[pkgId].recipe]) :
            countArgs(corePackages[pkgId].checkoutStep.args
                      \o corePackages[pkgId].buildStep.args
                      \o corePackages[pkgId].packageStep.args, name) = 1

\* C7, amended: a dependency that is named more than once with
\* `use: [result]` is exactly once among the args of the build step if the
\* recipe has a build script, and among the args of no step if it has none;
\* it is never among the args of the checkout or the package step, and under
\* the uniqueDependency policy no package is made of such a recipe.
C7_ResultOnceInBuildArgs ==
    \A pkgId \in DOMAIN corePackages :
        \A name \in usedTwice(recipeSet.recipes[corePackages[pkgId].recipe]) :
            /\ ~recipeSet.policies.uniqueDependency
            /\ countArgs(corePackages[pkgId].buildStep.args, name) =
                   IF recipeSet.recipes[corePackages[pkgId].recipe].build[1] # None
                   THEN 1 ELSE 0
            /\ countArgs(corePackages[pkgId].checkoutStep.args
                         \o corePackages[pkgId].packageStep.args, name) = 0

\* app, which names lib twice with `use: [result]` and has a build script,
\* was packaged
C7_Witness ==
    \E pkgId \in DOMAIN corePackages :
        /\ corePackages[pkgId].recipe = "app"
        /\ "lib" \in usedTwice(recipeSet.recipes["app"])
        /\ corePackages[pkgId].buildStep.isValid
        /\ countArgs(corePackages[pkgId].buildStep.args, "lib") = 1

-----------------------------------------------------------------------------
(* Scenarios *)

\* S3: app has only a package script and depends once on lib with
\* `use: [result, environment]`; S3 with a build script in app
S3 ==
    /\ status.state # "init"
    /\ "app" \in DOMAIN recipeSet.recipes
    /\ Len(recipeSet.recipes["app"].deps) = 1
    /\ recipeSet.recipes["app"].deps[1].useEnv
    /\ recipeSet.recipes["app"].deps[1].useBuildResult

S3Packages == { pkgId \in DOMAIN corePackages : S3 /\ corePackages[pkgId].recipe = "app" }

\* C8 as stated: in S3 the digestEnv of app's package step maps LIB_PATH to
\* /opt/lib and lib's package step is among the args of app's package step.
C8_LibInPackageArgs ==
    \A pkgId \in S3Packages :
        recipeSet.recipes["app"].build[1] = None =>
            /\ get(corePackages[pkgId].packageStep.digestEnv, "LIB_PATH") = "/opt/lib"
            /\ countArgs(corePackages[pkgId].packageStep.args, "lib") > 0

\* C8, amended: in S3 the digestEnv of app's package step maps LIB_PATH to
\* /opt/lib; the only arg of app's package step is app's own build step, which
\* is invalid and has no args when app has no build script, and which has
\* lib's package step among its args when app has a build script; lib's
\* package step is app's direct dependency.
C8_LibInBuildArgs ==
    \A pkgId \in S3Packages :
        LET p == corePackages[pkgId]
        IN  /\ get(p.packageStep.digestEnv, "LIB_PATH") = "/opt/lib"
            /\ Len(p.packageStep.args) = 1
            /\ destOf(p.packageStep.args[1]) = Dest("build", pkgId, "")
            /\ countArgs(p.directDepSteps, "lib") = 1
            /\ p.buildStep.isValid = (recipeSet.recipes["app"].build[1] # None)
            /\ countArgs(p.buildStep.args, "lib") = IF p.buildStep.isValid THEN 1 ELSE 0

\* app of S3, without build script, was packaged
C8_Witness ==
    \E pkgId \in S3Packages :
        /\ recipeSet.recipes["app"].build[1] = None
        /\ get(corePackages[pkgId].packageStep.digestEnv, "LIB_PATH") = "/opt/lib"
        /\ ~corePackages[pkgId].buildStep.isValid

\* S4: mid depends on compiler with `use: [tools], forward: true` and then
\* on obj; leaf depends on mid
S4(pkgId) ==
    /\ corePackages[pkgId].recipe = "leaf"
    /\ "compiler" \in DOMAIN recipeSet.recipes

\* the references of package pkgId to its direct dependency `name`
refsTo(pkgId, name) ==
    SelectSeq(corePackages[pkgId].directDepSteps, LAMBDA r : refName(r, NoPkg) = name)

\* C9 as stated: in S4 the tools of leaf's package step contain cc and the
\* reference from leaf to mid has cc in its diffTools.
C9_ForwardReachesLeaf ==
    \A pkgId \in DOMAIN corePackages :
        S4(pkgId) =>
            /\ has(getTools(corePackages[pkgId], corePackages[pkgId].packageStep), "cc")
            /\ \A i \in DOMAIN refsTo(pkgId, "mid") :
                   has(refsTo(pkgId, "mid")[i].diffTools, "cc")

\* C9, amended: in S4 the tools forwarded inside mid reach the dependencies
\* of mid that follow compiler, not leaf: leaf's package has no tool cc and
\* its reference to mid has empty diffTools, while mid's package has the tool
\* cc and mid's reference to obj has cc in its diffTools.
C9_ForwardReachesSiblings ==
    \A pkgId \in DOMAIN corePackages :
        S4(pkgId) =>
            /\ ~has(corePackages[pkgId].tools, "cc")
            /\ Len(refsTo(pkgId, "mid")) = 1
            /\ refsTo(pkgId, "mid")[1].diffTools = <<>>
            /\ LET mid == destOf(refsTo(pkgId, "mid")[1]).pkgId
               IN  /\ has(corePackages[mid].tools, "cc")
                   /\ Len(refsTo(mid, "obj")) = 1
                   /\ has(refsTo(mid, "obj")[1].diffTools, "cc")
                   /\ refsTo(mid, "compiler")[1].diffTools = <<>>

\* leaf of S4 was packaged
C9_Witness ==
    \E pkgId \in DOMAIN corePackages :
        /\ S4(pkgId)
        /\ Len(refsTo(pkgId, "mid")) = 1
        /\ status.state = "done"

\* the package that the call at the top of the stack is about to make
AtPackage ==
    /\ AtFinish
    /\ finishEnv(top(frames), recipeSet.recipes[top(frames).recipe]).ok
    /\ finishPackage(top(frames), recipeSet.recipes[top(frames).recipe],
                     finishEnv(top(frames), recipeSet.recipes[top(frames).recipe]),
                     uidGen + 1).ok

\* C10 as stated: the package step of every package is valid, and its
\* checkout step is valid iff the recipe, merged with its classes, has a
\* checkout script or any SCM.
C10_CheckoutValidIffContributed ==
    AtPackage =>
        /\ freshPackage.packageStep.isValid
        /\ freshPackage.checkoutStep.isValid
               <=> \/ recipeSet.recipes[top(frames).recipe].checkout[1] # None
                   \/ recipeSet.recipes[top(frames).recipe].checkout[3] # <<>>

\* C10, amended: the package step of every package is valid, and its checkout
\* step is valid iff the recipe, merged with its classes, has a checkout
\* script or an SCM whose `if` condition holds in the environment of the
\* package.
C10_CheckoutValidIffEnabled ==
    AtPackage =>
        LET self == recipeSet.recipes[top(frames).recipe]
            env == finishEnv(top(frames), self).env
        IN  /\ freshPackage.packageStep.isValid
            /\ freshPackage.checkoutStep.isValid
                   <=> \/ self.checkout[1] # None
                       \/ \E i \in DOMAIN self.checkout[3] :
                              evaluate(env, self.checkout[3][i].if).val

\* r has no package script and an SCM whose condition does not hold: its
\* package step is valid, its checkout step is not
C10_Witness ==
    /\ AtPackage
    /\ top(frames).recipe = "r"
    /\ "c" \in DOMAIN recipeSet.classes
    /\ recipeSet.recipes["r"].checkout[1] = None
    /\ recipeSet.recipes["r"].checkout[3] # <<>>
    /\ recipeSet.recipes["r"].package[1] = ""
    /\ freshPackage.packageStep.isValid
    /\ ~freshPackage.checkoutStep.isValid

-----------------------------------------------------------------------------
(* Determinism *)

\* the steps that step s of a registered package depends on: its arguments,
\* the tools it uses and its sandbox
depKeys(s) ==
    LET p == corePackages[s[1]]
        tools == getTools(p, stepAt(s))
        sandbox == getSandbox(p, stepAt(s), TRUE)
    IN  { <<destOf(stepAt(s).args[i]).pkgId, destOf(stepAt(s).args[i]).label>> :
            i \in DOMAIN stepAt(s).args }
        \cup { <<tools[i][2].coreStep, "dist">> : i \in DOMAIN tools }
        \cup (IF sandbox # <<>> THEN {<<sandbox[1].coreStep, "dist">>} ELSE {})

\* step s is deterministic on its own: a checkout step if the recipe and its
\* classes are checkoutDeterministic and every SCM is deterministic
ownDeterministic(s) ==
    s[2] = "src" =>
        /\ recipeOf(corePackages[s[1]]).checkoutDeterministic
        /\ \A i \in DOMAIN stepAt(s).scmList : stepAt(s).scmList[i].deterministic

\* step s and, recursively, all the steps it depends on are deterministic
RECURSIVE deterministicTree(_)
deterministicTree(s) ==
    ownDeterministic(s) /\ \A d \in depKeys(s) : deterministicTree(d)

\* C11: a call of prepare for a shared recipe whose package step is not
\* deterministic raises a ParseError; the package step of every package of
\* a shared recipe is deterministic, and a step is deterministic iff the
\* step itself and, recursively, its arguments, tools and sandbox are.
C11_SharedDeterministic ==
    /\ [][(/\ AtPackageSteps
           /\ recipeSet.recipes[top(frames).recipe].shared = True
           /\ ~isDeterministic(freshPackage.packageStep))
          => status'.state = "ParseError"]_vars
    /\ [](\A s \in AllSteps :
            /\ isDeterministic(stepAt(s)) <=> deterministicTree(s)
            /\ recipeOf(corePackages[s[1]]).shared = True /\ s[2] = "dist"
                   => deterministicTree(s))

\* the shared recipe shr was refused: the build step of dep, whose result or
\* tool it takes, is not deterministic
C11_Witness ==
    /\ status.state = "ParseError"
    /\ "shr" \in DOMAIN recipeSet.recipes
    /\ recipeSet.recipes["shr"].shared = True
    /\ \E pkgId \in DOMAIN corePackages :
           /\ corePackages[pkgId].recipe = "dep"
           /\ ~deterministicTree(<<pkgId, "dist">>)
           /\ ownDeterministic(<<pkgId, "dist">>)

\* the YAML document of recipe n and of class c
recipeYaml(n) == CHOOSE y \in files.recipes : y.name = n

\* the documents of the classes, anonymous base classes included
classDocuments ==
    files.classes
    \cup { y.multiPackage[1] : y \in { r \in files.recipes : r.multiPackage # <<>> } }

classYaml(c) == CHOOSE y \in classDocuments : y.name = c

\* the classes that recipe n inherits, directly or not
inherited(n) ==
    LET order == resolveClassesOrder(recipeSet, recipeSet.recipes[n], <<>>, {}, TRUE).ret
    IN  { order[i].packageName : i \in DOMAIN order }

\* the document declares checkoutDeterministic: true
declaresDeterministic(y) == y.checkoutDeterministic = True

\* the document is checkoutDeterministic: by its declaration or, without
\* one, if it has no checkout script
yamlDeterministic(y) ==
    IF y.checkoutDeterministic # None THEN y.checkoutDeterministic = True
    ELSE y.checkoutScript = None

\* the steps of the packages of the recipes on disk
RecipeSteps == { s \in AllSteps : corePackages[s[1]].recipe # "" }

\* all the steps that step s depends on are deterministic
depsDeterministic(s) == \A d \in depKeys(s) : isDeterministic(stepAt(d))

-----------------------------------------------------------------------------
(* Classes *)

\* the classes that cls inherits directly: its anonymous base class, then
\* the classes it names
children(cls) ==
    cls.anonBaseClass \o [ i \in DOMAIN cls.inherit |-> recipeSet.classes[cls.inherit[i]] ]

\* the classes in S and all the classes they inherit
RECURSIVE closure(_)
closure(S) ==
    LET T == S \cup UNION { Range(children(c)) : c \in S }
    IN  IF T = S THEN S ELSE closure(T)

\* the inherit relation below cls has a cycle
cyclicInherit(cls) ==
    \E c \in closure(Range(children(cls))) : c \in closure(Range(children(c)))

\* l without the repetitions of its elements
RECURSIVE dedup(_)
dedup(l) ==
    IF l = <<>> THEN <<>>
    ELSE LET front == dedup(SubSeq(l, 1, Len(l) - 1))
         IN  IF l[Len(l)] \in Range(front) THEN front ELSE Append(front, l[Len(l)])

\* the depth-first post-order of the classes below cls, each listed where it
\* is completed first
RECURSIVE postOrder(_)
RECURSIVE postOrderAll(_)
postOrder(cls) == dedup(postOrderAll(children(cls)))

postOrderAll(l) ==
    IF l = <<>> THEN <<>>
    ELSE postOrder(l[1]) \o <<l[1]>> \o postOrderAll(Tail(l))

\* C13: the class order of a recipe lists the classes it inherits, directly
\* or not, each once and after all the classes it inherits itself, in
\* depth-first post-order with the anonymous base class first; a cycle in
\* the inherit relation makes the resolution fail, and Parse raises a
\* ParseError.
C13_ClassOrder ==
    /\ [](\A n \in DOMAIN recipeSet.recipes :
            LET self == recipeSet.recipes[n]
                order == resolveClassesOrder(recipeSet, self, <<>>, {}, TRUE)
            IN  IF cyclicInherit(self) THEN ~order.ok
                ELSE /\ order.ok
                     /\ Range(order.ret) = closure(Range(children(self)))
                     /\ \A i, j \in DOMAIN order.ret :
                            order.ret[i] = order.ret[j] => i = j
                     /\ \A i \in DOMAIN order.ret : \A c \in Range(children(order.ret[i])) :
                            \E j \in 1..(i - 1) : order.ret[j] = c
                     /\ order.ret = postOrder(self))
    /\ [][(/\ status.state = "init"
           /\ \E n \in DOMAIN recipeSet.recipes : cyclicInherit(recipeSet.recipes[n]))
          => status'.state = "ParseError"]_vars

\* q has resolved its classes: it inherits c1 through two classes, one of
\* them its anonymous base class
C13_Witness ==
    /\ status.state = "parsed"
    /\ "q" \in DOMAIN recipeSet.recipes
    /\ recipeSet.recipes["q"].anonBaseClass # <<>>
    /\ Cardinality({ c \in closure(Range(children(recipeSet.recipes["q"]))) :
                        "c1" \in Range(c.inherit) }) = 2
    /\ Len(resolveClassesOrder(recipeSet, recipeSet.recipes["q"], <<>>, {}, TRUE).ret) = 4

-----------------------------------------------------------------------------
(* Environment of a recipe and of its classes                               *)

\* the recipe of the call inherits exactly one class, and both documents
\* define environment variables
definedTwice(f) ==
    /\ inherited(f.recipe) # {}
    /\ \A c \in inherited(f.recipe) :
          /\ inherited(f.recipe) = {c}
          /\ classYaml(c).environment # <<>>
          /\ keys(classYaml(c).environment) \cap keys(recipeYaml(f.recipe).environment) # {}
    /\ recipeYaml(f.recipe).filterEnv = <<>>

\* the environment in which the recipe's own definitions are substituted
definitionEnv(f) ==
    LET cls == classYaml(CHOOSE c \in inherited(f.recipe) : TRUE)
    IN  IF recipeSet.policies.mergeEnvironment
        THEN update(f.inputEnv, substituteAll(f.inputEnv, cls.environment).val)
        ELSE f.inputEnv

\* the definitions of the recipe can be substituted
definable(f) ==
    LET cls == classYaml(CHOOSE c \in inherited(f.recipe) : TRUE)
    IN  /\ recipeSet.policies.mergeEnvironment
            => substituteAll(f.inputEnv, cls.environment).ok
        /\ substituteAll(definitionEnv(f), recipeYaml(f.recipe).environment).ok

\* C14: when a class and the recipe inheriting it both define a variable, with
\* mergeEnvironment the recipe's definitions are substituted against the input
\* environment with the definitions of the class applied to it; without the
\* policy they are substituted against the input environment, so that the
\* value the class gives to the variable is seen nowhere.  A definition that
\* cannot be substituted that way is a ParseError.
C14_MergeEnvironment ==
    /\ [](\A i \in DOMAIN frames :
            (frames[i].pc = "deps" /\ definedTwice(frames[i])) =>
                LET f == frames[i]
                    own == recipeYaml(f.recipe).environment
                IN  \A j \in DOMAIN own :
                        get(f.env, own[j][1]) = substitute(definitionEnv(f), own[j][2]).val)
    /\ [][(/\ Running
           /\ top(frames).pc = "enter"
           /\ definedTwice(top(frames))
           /\ ~definable(top(frames)))
          => status'.state = "ParseError"]_vars

\* kid refers to K in its own definition of K, the class par sets K to P and
\* the root sets K to 1: kid has elaborated K as P with the policy
C14_Witness ==
    /\ Running
    /\ top(frames).recipe = "kid"
    /\ top(frames).pc = "deps"
    /\ recipeSet.policies.mergeEnvironment
    /\ get(top(frames).inputEnv, "K") = "1"
    /\ recipeYaml("kid").environment[1] = <<"K", Var("K")>>
    /\ classYaml("par").environment = << <<"K", Lit("P")>> >>
    /\ get(top(frames).env, "K") = "P"
    /\ get(top(frames).env, "J") = "P"

-----------------------------------------------------------------------------
(* A dependency that is named again *)

\* the call f has got the package of a dependency that its recipe named
\* before, without a condition
namedAgain(f) ==
    /\ f.pc = "call"
    /\ ret # <<>>
    /\ \E j \in 1..(f.depIdx - 1) :
          /\ recipeSet.recipes[f.recipe].deps[j].recipe
                 = recipeSet.recipes[f.recipe].deps[f.depIdx].recipe
          /\ recipeSet.recipes[f.recipe].deps[j].condition = NoTemplate

\* the direct dependencies of the call f to packages named `name`
directTo(f, name) ==
    { i \in DOMAIN f.directPackages : refName(f.directPackages[i], NoPkg) = name }

\* the Variant-Ids under which the call f has packages named `name` among its
\* direct dependencies
directVariants(f, name) ==
    { refGetDestination(f.directPackages[i], NoPkg).variantId : i \in directTo(f, name) }

\* C15: when the dependency loop gets the package of a dependency that the
\* recipe named before, prepare raises a ParseError if its package step has
\* another Variant-Id than the one of the first naming; with the same
\* Variant-Id prepare raises a ParseError under the policy uniqueDependency
\* and without the policy shows a warning and goes on, the dependency being
\* once in the list of direct dependencies.  The direct dependencies of
\* every call and of every package name each package once.
C15_NamedAgain ==
    /\ [][(Running /\ namedAgain(top(frames))) =>
            LET f == top(frames)
                self == recipeSet.recipes[f.recipe]
                name == self.deps[f.depIdx].recipe
                variantId == corePackages[ret[1].p].packageStep.variantId
            IN  IF directVariants(f, name) # {variantId}
                THEN status' = [ state |-> "ParseError",
                                 msg |-> "Multiple incompatible dependencies" ]
                ELSE IF recipeSet.policies.uniqueDependency
                THEN status' = [ state |-> "ParseError", msg |-> "Duplicate dependency" ]
                ELSE /\ status'.state = "running"
                     /\ <<self.packageName, name>> \in warnDepends'
                     /\ top(frames').directPackages = f.directPackages
                     /\ Cardinality(directTo(top(frames'), name)) = 1]_vars
    /\ [](\A i \in DOMAIN frames : \A j, k \in DOMAIN frames[i].directPackages :
            refName(frames[i].directPackages[j], NoPkg)
                = refName(frames[i].directPackages[k], NoPkg) => j = k)
    /\ [](\A pkgId \in DOMAIN corePackages :
            \A j, k \in DOMAIN corePackages[pkgId].directDepSteps :
                refName(corePackages[pkgId].directDepSteps[j], NoPkg)
                    = refName(corePackages[pkgId].directDepSteps[k], NoPkg) => j = k)
    /\ [](warnDepends # {} => ~recipeSet.policies.uniqueDependency)

\* user named lib twice with different values of X, which lib does not
\* read: the warning was shown and the package of user has lib once among its
\* direct dependencies
C15_Witness ==
    /\ <<"user", "lib">> \in warnDepends
    /\ \E pkgId \in DOMAIN corePackages :
          /\ corePackages[pkgId].recipe = "user"
          /\ Len(recipeSet.recipes["user"].deps) = 2
          /\ recipeSet.recipes["user"].deps[1].envOverride
                 # recipeSet.recipes["user"].deps[2].envOverride
          /\ Len(corePackages[pkgId].directDepSteps) = 1
          /\ refName(corePackages[pkgId].directDepSteps[1], NoPkg) = "lib"

-----------------------------------------------------------------------------
(* Directories of the SCMs *)

\* the directory without its "." and empty parts and with ".." resolved
resolved(dir) == normpath(dir)

\* path a is path b or leads to it
prefixOf(a, b) == Len(a) <= Len(b) /\ SubSeq(b, 1, Len(a)) = a

\* one of the directories is the other one or contains it; "." contains all
overlap(d1, d2) ==
    prefixOf(resolved(d1), resolved(d2)) \/ prefixOf(resolved(d2), resolved(d1))

\* the directories are relative and no two of them overlap
separate(dirs) ==
    /\ \A i \in DOMAIN dirs : dirs[i] = <<>> \/ dirs[i][1] # "" \/ Len(dirs[i]) = 1
    /\ \A i, j \in DOMAIN dirs : i # j => ~overlap(dirs[i], dirs[j])

\* the directories of the SCMs of the recipe, merged with its classes
chainDirs(self) == [ i \in DOMAIN self.checkout[3] |-> self.checkout[3][i].dir ]

\* the directories of those SCMs whose `if` condition holds in env
enabledDirs(self, env) ==
    chainDirs([ checkout |-> <<None, None,
                    SelectSeq(self.checkout[3], LAMBDA scm : evaluate(env, scm.if).val),
                    <<>> >> ])

\* the directories of the SCMs of a checkout step
stepDirs(step) == [ i \in DOMAIN step.scmList |-> step.scmList[i].dir ]

\* C16 as stated: making the checkout step of a package raises a ParseError
\* if an SCM directory of the recipe, merged with its classes, is absolute or
\* if two of them overlap; the SCM directories of every checkout step are
\* relative and do not overlap.
C16_ChainDirsSeparate ==
    /\ [][(AtPackageSteps /\ ~separate(chainDirs(recipeSet.recipes[top(frames).recipe])))
           => status'.state = "ParseError"]_vars
    /\ [](\A pkgId \in DOMAIN corePackages :
            separate(stepDirs(corePackages[pkgId].checkoutStep)))

\* C16, amended: making the checkout step of a package raises a ParseError
\* if the directory of an SCM whose `if` condition holds in the environment
\* of the package is absolute or if two such directories overlap; otherwise
\* the checkout step, if it is made, has these directories.  The SCM
\* directories of every checkout step are relative and do not overlap.
C16_EnabledDirsSeparate ==
    /\ [][AtPackageSteps =>
            LET self == recipeSet.recipes[top(frames).recipe]
                env == finishEnv(top(frames), self).env
            IN  IF separate(enabledDirs(self, env))
                THEN status'.state # "ParseError"
                         => stepDirs(freshPackage.checkoutStep) = enabledDirs(self, env)
                ELSE status'.state = "ParseError"]_vars
    /\ [](\A pkgId \in DOMAIN corePackages :
            separate(stepDirs(corePackages[pkgId].checkoutStep)))

\* r was packaged with the SCM of its class in a while its own SCM, in a/b,
\* is switched off
C16_Witness ==
    \E pkgId \in DOMAIN corePackages :
        /\ corePackages[pkgId].recipe = "r"
        /\ stepDirs(corePackages[pkgId].checkoutStep) = << <<"a">> >>
        /\ chainDirs(recipeSet.recipes["r"]) = << <<"a">>, <<"a", "b">> >>

-----------------------------------------------------------------------------
(* The virtual root *)

\* the last pattern of the rootFilter setting that names the recipe selects it
selected(name, rootFilter) ==
    LET hits == { i \in DOMAIN rootFilter : rootFilter[i].name = name }
    IN  /\ hits # {}
        /\ ~rootFilter[CHOOSE i \in hits : \A j \in hits : j <= i].neg

\* the root recipes that the rootFilter setting leaves
nonFilteredRoots ==
    { n \in DOMAIN recipeSet.recipes \ {""} :
        /\ recipeSet.recipes[n].root = True
        /\ recipeSet.rootFilter = <<>> \/ selected(n, recipeSet.rootFilter) }

\* the packages of the virtual root
virtualRoots == { pkgId \in DOMAIN corePackages : corePackages[pkgId].recipe = "" }

\* the packages whose results the build step of package p takes, in order
resultsOf(p) ==
    LET refs == SelectSeq(p.buildStep.args, LAMBDA r : destOf(r).label = "dist")
    IN  [ i \in DOMAIN refs |-> destOf(refs[i]).pkgId ]

\* the Variant-Ids of the package steps of the packages pkgIds
variantIdsOf(pkgIds) ==
    [ i \in DOMAIN pkgIds |-> corePackages[pkgIds[i]].packageStep.variantId ]

\* the Variant-Id that the package step of p has if its build step takes
\* the results of the packages pkgIds
variantIdWith(p, pkgIds) ==
    LET build == CoreBuildStep(p, recipeOf(p).build, p.buildStep.digestEnv,
                     p.buildStep.env,
                     SelectSeq(p.buildStep.args, LAMBDA r : destOf(r).label # "dist")
                     \o [ i \in DOMAIN pkgIds |->
                            CoreRef(Dest("dist", pkgIds[i], ""),
                                    <<corePackages[pkgIds[i]].recipe>>, <<>>, Inherit) ])
    IN  CorePackageStep([ p EXCEPT !.buildStep = build ], recipeOf(p).package,
                        p.packageStep.digestEnv, p.packageStep.env,
                        p.packageStep.args).variantId

\* the virtual root depends on the non-filtered roots, sorted by name, with
\* `use: [result]`, and its package takes their results in its build step
DependsOnRoots ==
    /\ status.state # "init" /\ "" \in DOMAIN recipeSet.recipes =>
          recipeSet.recipes[""].deps =
              [ i \in DOMAIN sortedNames(nonFilteredRoots) |->
                  Dependency(sortedNames(nonFilteredRoots)[i], <<>>, FALSE, {"result"},
                             NoTemplate) ]
    /\ \A pkgId \in virtualRoots :
          /\ [ i \in DOMAIN resultsOf(corePackages[pkgId]) |->
                    corePackages[resultsOf(corePackages[pkgId])[i]].recipe ]
                 = sortedNames(nonFilteredRoots)
          /\ variantIdWith(corePackages[pkgId], resultsOf(corePackages[pkgId]))
                 = corePackages[pkgId].packageStep.variantId

\* C17: the virtual root depends on every non-filtered root recipe with
\* `use: [result]`, and the Variant-Id of its package step is another one
\* with any other Variant-Ids of the package steps of these roots.  It is
\* the same one when two roots that differ only in being fingerprinted
\* exchange their Variant-Ids: the host parts of the arguments are joined
\* without their lengths.
C17_RootVariantsDistinguished ==
    /\ DependsOnRoots
    /\ \A pkgId \in virtualRoots :
          \A other \in [ DOMAIN resultsOf(corePackages[pkgId]) -> DOMAIN corePackages ] :
              variantIdsOf(other) # variantIdsOf(resultsOf(corePackages[pkgId]))
                  => variantIdWith(corePackages[pkgId], other)
                         # corePackages[pkgId].packageStep.variantId

-----------------------------------------------------------------------------
(* What generatePackages leaves behind *)

\* the run ended with an exception
Failed == status.state \in {"ParseError", "AssertionError", "ValueError"}

\* C19: when the elaboration of the virtual root raises an error, no package
\* is returned and the cache file of the packages stays as it was; a package
\* is returned, and the cache file written, only when the prepare call of the
\* virtual root returns, and what is returned and written is its result.
C19_NothingOnError ==
    /\ [](Failed => rootPackage = <<>>)
    /\ [][Failed' => packageCache' = packageCache]_vars
    /\ [][(rootPackage' # rootPackage \/ packageCache' # packageCache) =>
            /\ Running /\ Len(frames) = 1 /\ top(frames).recipe = ""
            /\ status'.state = "done"
            /\ rootPackage' = <<Package(ret'[1].p, <<>>)>>
            /\ packageCache' \in { packageCache,
                                   <<[ cacheKey |-> cacheKey, result |-> ret'[1].p ]>> }]_vars

\* the run failed after packages were made; the cache file of an earlier run
\* is still there
C19_Witness ==
    /\ Failed
    /\ corePackages # <<>>
    /\ packageCache = <<[ cacheKey |-> <<>>, result |-> 0 ]>>
    /\ rootPackage = <<>>

-----------------------------------------------------------------------------
(* The packages that are made from the core packages *)

\* the stack is not extended by the names of the reference
stackKept(stack, stackAdd) == stack

\* `stack + self.__stackAdd` of CoreRef.refDeref
stackAdded(stack, stackAdd) == stack \o stackAdd

\* CoreRef.refDeref(stack, ...): the Packages that are made while the
\* reference is dereferenced - for the tools and the sandbox that it
\* replaces, for its destination, and by CorePackage.refDeref for the
\* internalRef of the package of the destination
RECURSIVE refDeref(_, _)
refDeref(ref, stack) ==
    LET tools == { ref.diffTools[i][2][1] :
                     i \in { j \in DOMAIN ref.diffTools : ref.diffTools[j][2] # <<>> } }
        sandbox == { ref.diffSandbox.ref[i] : i \in DOMAIN ref.diffSandbox.ref }
        made(dest, to) ==
            IF ~isItem(dest) THEN refDeref(dest, to)
            ELSE IF dest.label = "internal" THEN {}
            ELSE {Package(dest.pkgId, to)}
                 \cup refDeref(corePackages[dest.pkgId].internalRef, to)
    IN  UNION { refDeref(r, stack) : r \in tools \cup sandbox }
        \cup made(ref.destination, stackAdded(stack, ref.stackAdd))

\* the references that a Package and its steps dereference:
\* getDirectDepSteps, getIndirectDepSteps and Step.getArguments
packageRefs(p) ==
    Range(p.directDepSteps) \cup Range(p.indirectDepSteps)
    \cup Range(p.checkoutStep.args) \cup Range(p.buildStep.args)
    \cup Range(p.packageStep.args)

\* the Packages that are reached from Package pkg
RECURSIVE reached(_)
reached(pkg) ==
    LET next == UNION { refDeref(r, pkg.stack) : r \in packageRefs(corePackages[pkg.corePackage]) }
    IN  {pkg} \cup UNION { reached(q) : q \in next \ {pkg} }

\* the Packages that are reached from what generatePackages returned, and
\* by CorePackage.refDeref for the virtual root itself
AllPackages ==
    UNION { reached(rootPackage[i])
            \cup UNION { reached(q) :
                    q \in refDeref(corePackages[rootPackage[i].corePackage].internalRef,
                                   rootPackage[i].stack) } :
            i \in DOMAIN rootPackage }

\* C18: the stack of every Package that is reached from the virtual root,
\* except the one of the virtual root itself, begins with the name of a root
\* recipe that the virtual root depends on and ends with the name of the
\* package; this is so when the core package is used at several places, where
\* it makes Packages with different stacks.
C18_StackFromRootToPackage ==
    \A pkg \in AllPackages :
        IF corePackages[pkg.corePackage].recipe = "" THEN pkg.stack = <<>>
        ELSE /\ pkg.stack # <<>>
             /\ recipeSet.recipes[pkg.stack[1]].root = True
             /\ \E i \in DOMAIN recipeSet.recipes[""].deps :
                    recipeSet.recipes[""].deps[i].recipe = pkg.stack[1]
             /\ pkg.stack[Len(pkg.stack)] = corePackages[pkg.corePackage].recipe

\* lib was elaborated once and is reached from the two roots p1 and p2
C18_Witness ==
    /\ rootPackage # <<>>
    /\ \E pkg, other \in AllPackages :
          /\ pkg.corePackage = other.corePackage
          /\ pkg.stack = <<"p1", "lib">>
          /\ other.stack = <<"p2", "lib">>

-----------------------------------------------------------------------------
(* The packages registered in a recipe *)

\* the packages registered in recipe n, in the order of their registration
registered(n) == [ i \in DOMAIN corePackagesById[n] |-> corePackagesById[n][i][2] ]

\* the Result-Id of the package step of a package
resultIdOf(p) == getResultId(p, p.packageStep)

\* the package registered in recipe n whose package step has Result-Id pid
withResultId(n, pid) ==
    { pkgId \in Range(registered(n)) : resultIdOf(corePackages[pkgId]) = pid }

\* C20: the packages registered in a recipe are packages of this recipe,
\* each registered once under the Result-Id of its package step, no two have
\* the same one, and every matcher of the recipe has a registered package.
\* When a prepare call that no matcher answered has made its package, it
\* returns the registered package with the Result-Id of the fresh one and
\* registers nothing if there is one, and registers and returns the fresh
\* package if there is none; either way it puts a matcher for the returned
\* package in front of the matchers.
C20_Registered ==
    /\ [](\A n \in DOMAIN corePackagesById :
            /\ \A i, j \in DOMAIN registered(n) :
                   resultIdOf(corePackages[registered(n)[i]])
                       = resultIdOf(corePackages[registered(n)[j]]) => i = j
            /\ \A i \in DOMAIN registered(n) :
                   /\ registered(n)[i] \in DOMAIN corePackages
                   /\ corePackages[registered(n)[i]].recipe = n
                   /\ corePackagesById[n][i][1] = resultIdOf(corePackages[registered(n)[i]])
            /\ \A i \in DOMAIN corePackagesByMatch[n] :
                   corePackagesByMatch[n][i].corePackage \in Range(registered(n)))
    /\ [][(AtPackage /\ top(frames).reusedCorePackage = <<>>) =>
            LET n == top(frames).recipe
                known == withResultId(n, resultIdOf(freshPackage))
            IN  /\ ret' # <<>>
                /\ Len(corePackagesByMatch'[n]) = Len(corePackagesByMatch[n]) + 1
                /\ Tail(corePackagesByMatch'[n]) = corePackagesByMatch[n]
                /\ corePackagesByMatch'[n][1].corePackage = ret'[1].p
                /\ IF known # {}
                   THEN /\ ret'[1].p \in known
                        /\ UNCHANGED <<corePackagesById, corePackages>>
                   ELSE /\ ret'[1].p \notin DOMAIN corePackages
                        /\ corePackages'[ret'[1].p] = freshPackage
                        /\ corePackagesById'[n] =
                               Append(corePackagesById[n],
                                      <<resultIdOf(freshPackage), ret'[1].p>>)]_vars

\* a call that no matcher answered has just returned: it made package
\* uidGen, found an older package of its recipe registered under the same
\* Result-Id and returned that one, with a new matcher in front
C20_Witness ==
    /\ ret # <<>>
    /\ ret[1].p < uidGen
    /\ uidGen \notin DOMAIN corePackages
    /\ \E n \in DOMAIN corePackagesByMatch :
           /\ Len(corePackagesByMatch[n]) > Len(registered(n))
           /\ corePackagesByMatch[n][1].corePackage = ret[1].p
           /\ ret[1].p \in Range(registered(n))

-----------------------------------------------------------------------------
(* What a dependency hands to its caller and to the dependencies after it *)

\* the dependency loop has taken the package that the call returned
DepTaken ==
    /\ Running /\ top(frames).pc = "call" /\ ret # <<>>
    /\ status' = status /\ Len(frames') = Len(frames)

\* the dependency loop calls prepare for the next dependency
DepCalled == Running /\ top(frames).pc = "deps" /\ Len(frames') = Len(frames) + 1

\* the environment that a dependency used with `sandbox` brings along
sandboxEnv(dep, depCoreStep) ==
    IF dep.useSandbox /\ depCoreStep.providedSandbox # <<>> /\ sandboxEnabled
    THEN depCoreStep.providedSandbox[1].environment ELSE <<>>

\* the recipe set is one of FamForward
Forwarding == {"app", "obj"} \subseteq DOMAIN recipeSet.recipes

\* C21: when the dependency loop has taken a package, the provided
\* variables of the package are merged into the env of the caller iff the
\* dependency has the use entry `environment`, and into the env for the
\* dependencies that follow iff it has `forward` as well; the same holds for
\* the provided tools and the use entry `tools`. The next dependency is
\* called with that env, updated with its own `environment`, and those
\* tools. So with lib before obj in app, obj gets LIB_PATH (cc) iff lib is
\* used with environment (tools) and forward, and app has it among its own
\* variables (tools) iff lib is used with environment (tools).
C21_Forward ==
    /\ [][DepTaken =>
            LET f == top(frames)
                g == top(frames')
                dep == recipeSet.recipes[f.recipe].deps[f.depIdx]
                c == corePackages[ret[1].p].packageStep
                provEnv == IF dep.useEnv THEN c.providedEnv ELSE <<>>
                provTools == IF dep.useTools THEN c.providedTools ELSE <<>>
            IN  /\ g.env = update(update(f.env, provEnv), sandboxEnv(dep, c))
                /\ g.tools = update(f.tools, provTools)
                /\ g.depEnv = IF dep.provideGlobal
                              THEN update(update(f.depEnv, provEnv), sandboxEnv(dep, c))
                              ELSE f.depEnv
                /\ g.depTools = IF dep.provideGlobal THEN update(f.depTools, provTools)
                                ELSE f.depTools]_vars
    /\ [][DepCalled =>
            LET f == top(frames)
                dep == recipeSet.recipes[f.recipe].deps[f.depIdx]
            IN  /\ top(frames').inputEnv = update(f.depEnv, dep.envOverride)
                /\ top(frames').inputTools = f.depTools]_vars
    /\ [](Forwarding /\ frames # <<>> =>
            LET f == top(frames)
                lib == recipeSet.recipes["app"].deps[1]
            IN  /\ f.recipe = "obj" =>
                       /\ has(f.inputEnv, "LIB_PATH") <=> lib.useEnv /\ lib.provideGlobal
                       /\ has(f.inputTools, "cc") <=> lib.useTools /\ lib.provideGlobal
                /\ f.recipe = "app" /\ f.depIdx > 1 =>
                       /\ has(f.env, "LIB_PATH") <=> lib.useEnv
                       /\ has(f.tools, "cc") <=> lib.useTools)

\* app has taken lib with environment and forward only and has called obj:
\* obj gets LIB_PATH but not cc
C21_Witness ==
    /\ Forwarding
    /\ Len(frames) = 3
    /\ top(frames).recipe = "obj"
    /\ has(top(frames).inputEnv, "LIB_PATH")
    /\ ~has(top(frames).inputTools, "cc")
    /\ ~has(frames[2].tools, "cc")

-----------------------------------------------------------------------------
(* The sandbox of a dependency *)

\* the variables that env has from the declaration `environment` of a
\* provideSandbox: each declared name with its substituted value
imported(env, environment) ==
    \A i \in DOMAIN environment :
        /\ has(env, environment[i][1])
        /\ get(env, environment[i][1]) = substitute(<<>>, environment[i][2]).val

\* C22 as stated: when the dependency loop has taken a package that provides
\* a sandbox and is used with `sandbox`, the sandbox of the caller is the
\* provided one and diffSandbox a reference to it; the env of the caller has
\* every variable that the provided sandbox declares, with its value, if
\* sandboxing is enabled, and is unchanged if it is not; with forward the
\* same holds for the sandbox, diffSandbox and env of the dependencies that
\* follow, and without forward these stay as they are.
C22_SandboxImported ==
    [][DepTaken =>
        LET f == top(frames)
            g == top(frames')
            dep == recipeSet.recipes[f.recipe].deps[f.depIdx]
            p == corePackages[ret[1].p]
            c == p.packageStep
            ref == Replace(CoreRef(Dest("sandbox", p.pkgId, ""), <<p.recipe>>,
                                   f.depDiffTools, f.depDiffSandbox))
            declared == recipeSet.recipes[p.recipe].provideSandbox[1].environment
            provEnv == IF dep.useEnv THEN c.providedEnv ELSE <<>>
        IN  dep.useSandbox /\ c.providedSandbox # <<>> =>
                /\ g.sandbox = c.providedSandbox
                /\ g.diffSandbox = ref
                /\ IF sandboxEnabled THEN imported(g.env, declared)
                   ELSE g.env = update(f.env, provEnv)
                /\ IF dep.provideGlobal
                   THEN /\ g.depSandbox = c.providedSandbox
                        /\ g.depDiffSandbox = ref
                        /\ IF sandboxEnabled THEN imported(g.depEnv, declared)
                           ELSE g.depEnv = update(f.depEnv, provEnv)
                   ELSE /\ g.depSandbox = f.depSandbox
                        /\ g.depDiffSandbox = f.depDiffSandbox
                        /\ g.depEnv = f.depEnv]_vars

-----------------------------------------------------------------------------
(* Indirect and provided dependencies *)

\* the names of the packages that the references of a list lead to
refNames(refs) == [ i \in DOMAIN refs |-> refName(refs[i], NoPkg) ]

\* the Variant-Id of the step that a reference leads to
refVariantId(ref) == refGetDestination(ref, NoPkg).variantId

\* no name twice
uniqueNames(names) == \A i, j \in DOMAIN names : names[i] = names[j] => i = j

\* a reference of refs has the name but not the Variant-Id of a reference of
\* recorded or of an earlier one of refs
conflicting(refs, recorded) ==
    \E i \in DOMAIN refs :
        \E r \in Range(recorded) \cup { refs[j] : j \in 1..(i - 1) } :
            /\ refName(r, NoPkg) = refName(refs[i], NoPkg)
            /\ refVariantId(r) # refVariantId(refs[i])

\* C23: the indirect dependencies of every package have pairwise distinct
\* names, none of them the name of a direct dependency, and so have the
\* dependencies it provides. When the dependencies of a call are processed
\* and an indirect package has the name of a package recorded before it (a
\* direct or an indirect one) with another Variant-Id, prepare raises a
\* ParseError; otherwise the package gets each name of the indirect packages
\* that no direct dependency has, once. When the dependency loop takes a
\* package named in provideDeps and the package or one that it provides has
\* the name of a provided one recorded before with another Variant-Id,
\* prepare raises a ParseError; otherwise the names that were not recorded
\* are added.
C23_IndirectUnique ==
    /\ [](\A id \in DOMAIN corePackages :
            /\ uniqueNames(refNames(corePackages[id].indirectDepSteps))
            /\ Range(refNames(corePackages[id].indirectDepSteps))
                   \cap Range(refNames(corePackages[id].directDepSteps)) = {}
            /\ uniqueNames(refNames(corePackages[id].packageStep.providedDeps)))
    /\ [][AtFinish =>
            LET f == top(frames)
            IN  IF conflicting(f.indirectPackages, f.directPackages)
                THEN status'.state = "ParseError"
                ELSE AtPackage =>
                         Range(refNames(freshPackage.indirectDepSteps))
                             = Range(refNames(f.indirectPackages))
                                   \ Range(refNames(f.directPackages))]_vars
    /\ [][Running /\ top(frames).pc = "call" /\ ret # <<>> =>
            LET f == top(frames)
                self == recipeSet.recipes[f.recipe]
                dep == self.deps[f.depIdx]
                p == corePackages[ret[1].p]
                mkRef(d) == CoreRef(d, <<p.recipe>>, f.depDiffTools, f.depDiffSandbox)
                new == <<mkRef(Dest("dist", p.pkgId, ""))>>
                       \o [ i \in DOMAIN p.packageStep.providedDeps |->
                              mkRef(p.packageStep.providedDeps[i]) ]
            IN  dep.recipe \in self.provideDeps =>
                    IF conflicting(new, f.provideDeps)
                    THEN status'.state = "ParseError"
                    ELSE DepTaken =>
                             /\ uniqueNames(refNames(top(frames').provideDeps))
                             /\ Range(refNames(top(frames').provideDeps))
                                    = Range(refNames(f.provideDeps))
                                          \cup Range(refNames(new))]_vars

\* top has been elaborated: base reached it through m1 and through m2 with
\* the same Variant-Id and is one indirect dependency of top, and one of the
\* dependencies that top provides
C23_Witness ==
    /\ status.state = "done"
    /\ "top" \in DOMAIN corePackagesById
    /\ \E id \in DOMAIN corePackages :
           /\ corePackages[id].recipe = "top"
           /\ refNames(corePackages[id].indirectDepSteps) = <<"base">>
           /\ refNames(corePackages[id].directDepSteps) = <<"m1", "m2">>
           /\ refNames(corePackages[id].packageStep.providedDeps)
                  = <<"m1", "base", "m2">>

-----------------------------------------------------------------------------
(* The fingerprint mask *)

\* 2 ^ n
RECURSIVE pow2(_)
pow2(n) == IF n = 0 THEN 1 ELSE 2 * pow2(n - 1)

\* bit i (from 1) of mask is set
bit(mask, i) == (mask \div pow2(i - 1)) % 2 = 1

\* the tools of the package steps that the call at the top of the stack has
\* got, in the order of their names
presentTools ==
    SelectSeq(sorted(top(frames).tools),
              LAMBDA nt : nt[1] \in recipeSet.recipes[top(frames).recipe].toolDepPackage)

\* the fingerprintIf conditions of the call at the top of the stack
conditions ==
    [ i \in DOMAIN presentTools |-> presentTools[i][2].fingerprintIf ]
    \o recipeSet.recipes[top(frames).recipe].fingerprintIf

\* condition c is definitely set in env: the literal True, or a string that
\* evaluates to true
definite(c, env) ==
    \/ c.lit = True
    \/ c.lit \notin {None, True, False} /\ evaluate(env, c).val

\* C24: the fingerprintMask of the package that a call makes has one bit for
\* each condition (the conditions of the present package tools, sorted by
\* name, then those of the recipe): the bit is set iff the condition is
\* definitely set, or is None and a condition is definitely set; the mask
\* is 0 if no condition is definitely set.
C24_FingerprintMask ==
    AtPackage =>
        LET env == finishEnv(top(frames), recipeSet.recipes[top(frames).recipe]).env
            mask == freshPackage.fingerprintMask
            any == \E j \in DOMAIN conditions : definite(conditions[j], env)
        IN  /\ mask \in 0..(pow2(Len(conditions)) - 1)
            /\ \A i \in DOMAIN conditions :
                   bit(mask, i) <=> \/ definite(conditions[i], env)
                                    \/ conditions[i].lit = None /\ any
            /\ ~any => mask = 0

\* fpr is about to make its package: cc has the condition $X, which holds,
\* ld has the condition False and the recipe has none for its script, so the
\* mask is 101
C24_Witness ==
    /\ AtPackage
    /\ top(frames).recipe = "fpr"
    /\ conditions = <<Var("X"), Lit(False), NoTemplate>>
    /\ freshPackage.fingerprintMask = 5

-----------------------------------------------------------------------------
(* The fingerprint script *)

\* the scripts that the bits of mask select, the first script by bit 1
RECURSIVE selectByMask(_, _)
selectByMask(scripts, mask) ==
    IF scripts = <<>> THEN <<>>
    ELSE (IF mask % 2 = 1 THEN <<scripts[1]>> ELSE <<>>)
         \o selectByMask(Tail(scripts), mask \div 2)

\* Step._getFingerprintScript: the list `ret` that is joined and mangled
_getFingerprintScript(p, step) ==
    IF ~isFingerprinted(p, step) THEN <<>>
    ELSE LET tools == sorted(getTools(p, step))
         IN  selectByMask([ i \in DOMAIN tools |-> tools[i][2].fingerprintScript ]
                          \o recipeOf(p).fingerprintScripts,
                          p.fingerprintMask)

\* the fingerprint scripts of the entries whose conditions made the mask of
\* package p: the package tools that p has, sorted by name, then the recipe
maskedScripts(p) ==
    LET tools == SelectSeq(sorted(p.tools),
                           LAMBDA nt : nt[1] \in recipeOf(p).toolDepPackage)
    IN  selectByMask([ i \in DOMAIN tools |-> tools[i][2].fingerprintScript ]
                     \o recipeOf(p).fingerprintScripts,
                     p.fingerprintMask)

\* the fingerprint script of the steps of kind label is made of the scripts
\* whose conditions set a bit of the mask
scriptOfMask(label) ==
    \A s \in AllSteps :
        LET p == corePackages[s[1]]
            step == stepAt(s)
        IN  step.label = label /\ step.isValid /\ isFingerprinted(p, step) =>
                _getFingerprintScript(p, step) = maskedScripts(p)

\* C25 as stated: the fingerprint script of every fingerprinted build or
\* package step is made of exactly the fingerprint scripts of the tools and
\* recipe entries whose conditions set a bit of the fingerprintMask of the
\* package.
C25_ScriptMatchesMask ==
    scriptOfMask("build") /\ scriptOfMask("dist")

-----------------------------------------------------------------------------
(* Dereferencing with tools and sandbox *)

\* `del tools[name]`
del(tools, name) == SelectSeq(tools, LAMBDA nt : nt[1] # name)

\* the loop works on the map of the caller
aliased(inputTools, tools) == tools

\* `tools = inputTools.copy()`: the map of the caller after the loop has
\* changed tools
copy(inputTools, tools) == inputTools

\* a KeyError
KeyError == [ ok |-> FALSE, val |-> <<>>, stack |-> <<>>, tools |-> <<>>,
              sandbox |-> <<>>, after |-> <<>> ]

RECURSIVE derefRef(_, _, _, _)

\* CorePackage.refDeref: [ok, val], val the Package
derefPackage(pkgId, stack, inputTools, inputSandbox) ==
    LET made(internal) ==
            [ ok |-> internal.ok,
              val |-> [ corePackage |-> pkgId, stack |-> stack,
                        inputTools |-> inputTools, tools |-> internal.tools,
                        inputSandbox |-> inputSandbox, sandbox |-> internal.sandbox ] ]
    IN  made(derefRef(corePackages[pkgId].internalRef, stack, inputTools, inputSandbox))

\* destination.refDeref(stack, tools, sandbox): [ok, val], val holds the
\* step, Tool or Sandbox that is made, and nothing for CorePackageInternal
derefDestination(destination, stack, tools, sandbox) ==
    LET item(package) ==
            [ ok |-> package.ok,
              val |-> <<[ label |-> destination.label, name |-> destination.name,
                          package |-> package.val ]>> ]
    IN  IF ~isItem(destination) THEN derefRef(destination, stack, tools, sandbox)
        ELSE IF destination.label = "internal" THEN [ ok |-> TRUE, val |-> <<>> ]
        ELSE item(derefPackage(destination.pkgId, stack, tools, sandbox))

\* CoreRef.refDeref, the loop over diffTools: [ok, tools]
RECURSIVE derefTools(_, _, _, _, _)
derefTools(diffTools, tools, stack, inputTools, inputSandbox) ==
    IF diffTools = <<>> THEN [ ok |-> TRUE, tools |-> tools ]
    ELSE LET name == diffTools[1][1]
             tool == diffTools[1][2]
             put(coreTool) ==
                 IF ~coreTool.ok THEN [ ok |-> FALSE, tools |-> tools ]
                 ELSE derefTools(Tail(diffTools), set(tools, name, coreTool.val[1]),
                                 stack, inputTools, inputSandbox)
         IN  IF tool = <<>>
             THEN IF ~has(tools, name) THEN [ ok |-> FALSE, tools |-> tools ]
                  ELSE derefTools(Tail(diffTools), del(tools, name), stack,
                                  inputTools, inputSandbox)
             ELSE put(derefRef(tool[1], stack, inputTools, inputSandbox))

\* CoreRef.refDeref: [ok, val, stack, tools, sandbox, after]; stack, tools
\* and sandbox are what the destination gets, val what it makes of them, and
\* after is inputTools when the call has returned
derefRef(ref, stack, inputTools, inputSandbox) ==
    LET deref(t, s) ==
            LET to(d) == IF ~d.ok THEN KeyError
                         ELSE [ ok |-> TRUE, val |-> d.val,
                                stack |-> stack \o ref.stackAdd,
                                tools |-> t.tools, sandbox |-> s.val,
                                after |-> copy(inputTools, t.tools) ]
            IN  IF ~t.ok \/ ~s.ok THEN KeyError
                ELSE to(derefDestination(ref.destination, stack \o ref.stackAdd,
                                         t.tools, s.val))
    IN  deref(IF ref.diffTools # <<>>
              THEN derefTools(ref.diffTools, inputTools, stack, inputTools,
                              inputSandbox)
              ELSE [ ok |-> TRUE, tools |-> inputTools ],
              CASE ref.diffSandbox.kind = "inherit" ->
                       [ ok |-> TRUE, val |-> inputSandbox ]
                [] ref.diffSandbox.kind = "clear" -> [ ok |-> TRUE, val |-> <<>> ]
                [] OTHER -> derefRef(ref.diffSandbox.ref[1], stack, inputTools,
                                     inputSandbox))

\* a call of CoreRef.refDeref
Site(ref, stack, inputTools, inputSandbox) ==
    [ ref |-> ref, stack |-> stack, inputTools |-> inputTools,
      inputSandbox |-> inputSandbox ]

\* what the call makes
derefSite(site) == derefRef(site.ref, site.stack, site.inputTools, site.inputSandbox)

\* the calls of CoreRef.refDeref that Package pkg makes for its dependencies
\* and the arguments of its steps, the one that made pkg of its internalRef,
\* and those of the Packages of other stacks that are made there
RECURSIVE sites(_)
sites(pkg) ==
    LET own == { Site(r, pkg.stack, pkg.inputTools, pkg.inputSandbox) :
                   r \in packageRefs(corePackages[pkg.corePackage]) }
        next == { derefSite(site).val[1].package :
                    site \in { t \in own : derefSite(t).ok } }
    IN  own \cup {Site(corePackages[pkg.corePackage].internalRef, pkg.stack,
                       pkg.inputTools, pkg.inputSandbox)}
            \cup UNION { sites(q) : q \in { n \in next : n.stack # pkg.stack } }

\* the calls of CoreRef.refDeref when the package tree that generatePackages
\* returned is walked: the one of `result.refDeref([], {}, None, ...)` for
\* the internalRef of the virtual root, and those of the Packages
AllSites ==
    UNION { LET root == derefPackage(rootPackage[i].corePackage, <<>>, <<>>, <<>>)
            IN  IF root.ok THEN sites(root.val)
                ELSE {Site(corePackages[rootPackage[i].corePackage].internalRef,
                           <<>>, <<>>, <<>>)} :
            i \in DOMAIN rootPackage }

\* the names that diffTools maps to None
removedTools(diffTools) ==
    { diffTools[i][1] : i \in { j \in DOMAIN diffTools : diffTools[j][2] = <<>> } }

\* the names that diffTools maps to a CoreRef
replacedTools(diffTools) ==
    { diffTools[i][1] : i \in { j \in DOMAIN diffTools : diffTools[j][2] # <<>> } }

\* C26: a call of CoreRef.refDeref that returns has handed its destination
\* the input tools if diffTools is empty, and else the tools of these names:
\* the names of the input tools that diffTools does not map to None, and the
\* names that diffTools maps to a CoreRef; such a name has what the CoreRef
\* makes of the stack, input tools and input sandbox of the call, every
\* other name has the tool of the input tools. The input tools of the caller
\* are as they were. The destination gets the input sandbox (inherit), none
\* (clear) or what the replacement makes of the inputs of the call.
C26_DerefTools ==
    \A site \in AllSites :
        LET r == derefSite(site)
            diffTools == site.ref.diffTools
            diffSandbox == site.ref.diffSandbox
            made(ref) == derefRef(ref, site.stack, site.inputTools, site.inputSandbox)
        IN  r.ok =>
                /\ diffTools = <<>> => r.tools = site.inputTools
                /\ keys(r.tools) = (keys(site.inputTools) \ removedTools(diffTools))
                                       \cup replacedTools(diffTools)
                /\ \A name \in keys(r.tools) :
                       get(r.tools, name) =
                           IF name \in replacedTools(diffTools)
                           THEN made(get(diffTools, name)[1]).val[1]
                           ELSE get(site.inputTools, name)
                /\ r.after = site.inputTools
                /\ r.sandbox = CASE diffSandbox.kind = "inherit" -> site.inputSandbox
                                  [] diffSandbox.kind = "clear" -> <<>>
                                  [] OTHER -> made(diffSandbox.ref[1]).val

\* a call for obj in the tree of p1: obj gets the tool cc and a sandbox, its
\* internalRef removes cc and clears the sandbox
C26_Witness ==
    \E site \in AllSites :
        /\ site.stack = <<"p1", "obj">>
        /\ destOf(site.ref).label = "internal"
        /\ keys(site.inputTools) = {"cc"}
        /\ site.inputSandbox # <<>>
        /\ derefSite(site).ok
        /\ derefSite(site).tools = <<>>
        /\ derefSite(site).sandbox = <<>>

\* C29 as stated: no call of CoreRef.refDeref, when the package tree is
\* walked, removes a tool that its input tools do not have: every name that
\* the diffTools of the internalRef of a package or of a CoreRef map to None
\* is a name of the input tools of the call.
C29_DerefNeverFails ==
    \A site \in AllSites : derefSite(site).ok

noBuild(recipe) == recipeSet.recipes[recipe].build = <<None, None>>

\* the Variant-Ids of the steps that the references lead to
refVariantIds(refs) == [ i \in DOMAIN refs |-> refVariantId(refs[i]) ]

\* two packages of one recipe that were elaborated from the same tools, the
\* same sandbox and the same variables of the package step
sameButResults(p, q) ==
    /\ p.recipe = q.recipe
    /\ p.tools = q.tools
    /\ p.sandbox = q.sandbox
    /\ p.fingerprintMask = q.fingerprintMask
    /\ p.packageStep.env = q.packageStep.env
    /\ p.packageStep.digestEnv = q.packageStep.digestEnv

\* C30: when Recipe.prepare makes the steps of a recipe without build
\* script, the build step is invalid and has no args, the only arg of the
\* package step is that build step, and the Variant-Id of the package step
\* equals that of every package of the recipe that was elaborated from the
\* same tools, sandbox and package variables, whatever the Variant-Ids of its
\* dependencies are.
C30_NoBuildNoArgs ==
    AtPackageSteps /\ noBuild(top(frames).recipe) =>
        /\ ~freshPackage.buildStep.isValid
        /\ freshPackage.buildStep.args = <<>>
        /\ Len(freshPackage.packageStep.args) = 1
        /\ destOf(freshPackage.packageStep.args[1]).label = "build"
        /\ \A pkgId \in DOMAIN corePackages :
               sameButResults(freshPackage, corePackages[pkgId])
               => freshPackage.packageStep.variantId
                      = corePackages[pkgId].packageStep.variantId

\* nb without build script is elaborated a second time, with another variant
\* of part as its dependency
C30_Witness ==
    /\ AtPackageSteps
    /\ top(frames).recipe = "nb"
    /\ noBuild("nb")
    /\ \E pkgId \in DOMAIN corePackages :
           /\ sameButResults(freshPackage, corePackages[pkgId])
           /\ Len(freshPackage.directDepSteps) = 1
           /\ refVariantIds(freshPackage.directDepSteps)
                  # refVariantIds(corePackages[pkgId].directDepSteps)
           /\ freshPackage.packageStep.variantId
                  = corePackages[pkgId].packageStep.variantId

\* ---- bob build / bob dev: hooks around the build ----

MaxBacklog == 2
MaxProvided == 1

\* the package steps that the PACKAGE arguments can select: "/"-joined stack
\* of the package and workspace path of the step
BuildSteps ==
    { [ stack |-> "a", workspacePath |-> "work/a" ],
      [ stack |-> "a/lib", workspacePath |-> "work/lib" ],
      [ stack |-> "b/lib", workspacePath |-> "work/lib" ] }

Backlogs(n) == UNION { [ 1..k -> BuildSteps ] : k \in 0..n }

\* what recipes.getBuildHook can return
HookCmds == { None, "", "~/hook.sh" }

\* what subprocess.call can do: return a status or raise OSError
Calls == { "0", "1", "OSError" }

\* the exit status of the hook command, None when there is no command to run
exitStatus(hookCmd, call) == IF hookCmd = None \/ hookCmd = "" THEN None ELSE call

\* a call that commonBuildDevelop made
Called(op, args) == [ op |-> op, args |-> args ]

\* a hook whose status is never looked at
runHookAnyway(hookCmd, call) ==
    [ ret |-> TRUE, raised |-> FALSE ]

\* runHook: `ret` unless BuildError is raised
runHook(hookCmd, call) ==
    IF hookCmd # None /\ hookCmd # ""
    THEN [ ret |-> (call = "0"), raised |-> (call = "OSError") ]
    ELSE [ ret |-> TRUE, raised |-> FALSE ]

\* for p in steps: results.append(p.getWorkspacePath()) unless it is there
RECURSIVE addResults(_, _)
addResults(results, steps) ==
    IF steps = <<>> THEN results
    ELSE addResults(IF \E i \in DOMAIN results : results[i] = steps[1].workspacePath
                    THEN results
                    ELSE Append(results, steps[1].workspacePath),
                    Tail(steps))

stacks(steps) == [ i \in DOMAIN steps |-> steps[i].stack ]

\* the exceptions that builder.cook can end with, None when it returns
CookEnds == { None, "BuildError", "KeyboardInterrupt" }

Done(b) == b.pc = "done"

\* the call `op` with `args` was made and control went on to `pc`
Went(b, pc, op, args) == [ b EXCEPT !.pc = pc, !.log = Append(@, Called(op, args)) ]

\* the exception exc left the statement `op`
Raised(b, pc, op, args, exc) == [ Went(b, pc, op, args) EXCEPT !.exc = exc ]

\* no recipe was read yet
InitBuild ==
    /\ recipeSet = RecipeSet({}, {}, Policies, <<>>)
    /\ sandboxEnabled = FALSE
    /\ DEBUG = [ pkgck |-> FALSE ]
    /\ files = [ recipes |-> {}, classes |-> {} ]
    /\ warnDepends = {}
    /\ packageCache = <<>>
    /\ rootPackage = <<>>
    /\ corePackagesByMatch = [ n \in {""} |-> <<>> ]
    /\ corePackagesById = [ n \in {""} |-> <<>> ]
    /\ corePackages = <<>>
    /\ uidGen = 0
    /\ frames = <<>>
    /\ ret = <<>>
    /\ status = [ state |-> "init", msg |-> "" ]
    /\ buildRun = NotBuilding

\* commonBuildDevelop up to `loop.set_default_executor(executor)`
commonBuildDevelop ==
    /\ buildRun.pc = "idle"
    /\ \E jobs \in 1..2 :
           buildRun' = [ buildRun EXCEPT !.pc = "try", !.jobs = jobs ]
    /\ UNCHANGED recipeVars

\* from `recipes = RecipeSet()` to the end of the loop that fills backlog and
\* providedBacklog; an exception (ParseError, a wrong --jobs) ends the try block
SetUp ==
    /\ buildRun.pc = "try"
    /\ \/ buildRun' = [ buildRun EXCEPT !.pc = "shutdown", !.exc = "ParseError" ]
       \/ \E pre \in HookCmds, post \in HookCmds,
             backlog \in Backlogs(MaxBacklog), providedBacklog \in Backlogs(MaxProvided) :
              buildRun' = [ buildRun EXCEPT !.pc = "preBuildHook",
                                      !.hooks = [ preBuildHook |-> pre,
                                                  postBuildHook |-> post ],
                                      !.backlog = backlog,
                                      !.providedBacklog = providedBacklog ]
    /\ UNCHANGED recipeVars

\* `success = runHook(recipes, 'preBuildHook', ...)` to `builder.enableBufferedIO()`
PreBuildHook ==
    /\ buildRun.pc = "preBuildHook"
    /\ \E call \in Calls :
           LET hook == runHook(buildRun.hooks.preBuildHook, call)
               args == stacks(buildRun.backlog)
           IN  buildRun' =
                   IF hook.raised \/ ~hook.ret
                   THEN [ Raised(buildRun, "shutdown", "preBuildHook", args, "BuildError")
                            EXCEPT !.exit = exitStatus(buildRun.hooks.preBuildHook, call) ]
                   ELSE [ Went(buildRun, "cook", "preBuildHook", args)
                            EXCEPT !.exit = exitStatus(buildRun.hooks.preBuildHook, call),
                                   !.success = FALSE, !.tui = buildRun.jobs ]
    /\ UNCHANGED recipeVars

\* `builder.cook(backlog, ...)` and the loop over backlog
CookBacklog ==
    /\ buildRun.pc = "cook"
    /\ \E exc \in CookEnds :
           buildRun' =
               IF exc # None
               THEN Raised(buildRun, "finally", "cook", stacks(buildRun.backlog), exc)
               ELSE [ Went(buildRun, "cookProvided", "cook", stacks(buildRun.backlog))
                        EXCEPT !.cooked = @ + 1,
                               !.results = addResults(@, buildRun.backlog) ]
    /\ UNCHANGED recipeVars

\* `builder.cook(providedBacklog, ..., 1)`, the loop over providedBacklog and
\* `success = True`
CookProvided ==
    /\ buildRun.pc = "cookProvided"
    /\ \E exc \in CookEnds :
           buildRun' =
               IF exc # None
               THEN Raised(buildRun, "finally", "cook", stacks(buildRun.providedBacklog), exc)
               ELSE [ Went(buildRun, "finally", "cook", stacks(buildRun.providedBacklog))
                        EXCEPT !.cooked = @ + 1,
                               !.results = addResults(@, buildRun.providedBacklog),
                               !.success = TRUE ]
    /\ UNCHANGED recipeVars

\* finally: `if args.jobs > 1: setTui(1)` and `builder.saveBuildState()`
SaveBuildState ==
    /\ buildRun.pc = "finally"
    /\ buildRun' = [ Went(buildRun, "postBuildHook", "saveBuildState", <<>>) EXCEPT !.tui = 1 ]
    /\ UNCHANGED recipeVars

\* finally: `runHook(recipes, 'postBuildHook', ...)`, whose result is dropped
PostBuildHook ==
    /\ buildRun.pc = "postBuildHook"
    /\ \E call \in Calls :
           LET hook == runHook(buildRun.hooks.postBuildHook, call)
               args == <<IF buildRun.success THEN "success" ELSE "fail">> \o buildRun.results
           IN  buildRun' =
                   IF hook.raised
                   THEN Raised(buildRun, "shutdown", "postBuildHook", args, "BuildError")
                   ELSE Went(buildRun, "shutdown", "postBuildHook", args)
    /\ UNCHANGED recipeVars

\* outer finally: `executor.shutdown()`
ExecutorShutdown ==
    /\ buildRun.pc = "shutdown"
    /\ buildRun' = Went(buildRun, "close", "shutdown", <<>>)
    /\ UNCHANGED recipeVars

\* outer finally: `loop.close()`; then the exception, if any, leaves
\* commonBuildDevelop
LoopClose ==
    /\ buildRun.pc = "close"
    /\ buildRun' = Went(buildRun, "done", "close", <<>>)
    /\ UNCHANGED recipeVars

NextBuild ==
    \/ commonBuildDevelop
    \/ SetUp
    \/ PreBuildHook
    \/ CookBacklog
    \/ CookProvided
    \/ SaveBuildState
    \/ PostBuildHook
    \/ ExecutorShutdown
    \/ LoopClose

BuildSpec == InitBuild /\ [][NextBuild]_vars

\* the places in the log of the calls `op`
at(op) == { i \in DOMAIN buildRun.log : buildRun.log[i].op = op }

\* the try block of the build was left
BuildEnded == buildRun.pc \in {"shutdown", "close", "done"}

\* C27: the preBuildHook is run before any cook; when it returns non-zero
\* (or cannot be started), BuildError is raised and there is no cook, no
\* saveBuildState and no postBuildHook; when it succeeded, then, however the
\* two cooks ended, saveBuildState was called once and right after it the
\* postBuildHook once, with "success" as first argument if both cooks
\* returned and "fail" if not; and when commonBuildDevelop is left, the last
\* two calls were executor.shutdown() and loop.close().
C27_BuildHooks ==
    /\ \A i \in at("cook") : \E j \in at("preBuildHook") : j < i
    /\ Cardinality(at("preBuildHook")) <= 1
    /\ (at("preBuildHook") # {} /\ buildRun.exit \in {"1", "OSError"}) =>
           /\ buildRun.exc = "BuildError"
           /\ BuildEnded
           /\ at("cook") = {} /\ at("saveBuildState") = {} /\ at("postBuildHook") = {}
    /\ (at("preBuildHook") # {} /\ buildRun.exit \in {None, "0"} /\ BuildEnded) =>
           /\ Cardinality(at("saveBuildState")) = 1
           /\ Cardinality(at("postBuildHook")) = 1
           /\ \A i \in at("saveBuildState") : i + 1 \in at("postBuildHook")
           /\ \A i \in at("postBuildHook") :
                  buildRun.log[i].args[1] = IF buildRun.cooked = 2 THEN "success" ELSE "fail"
    /\ Done(buildRun) =>
           /\ Len(buildRun.log) >= 2
           /\ buildRun.log[Len(buildRun.log) - 1].op = "shutdown"
           /\ buildRun.log[Len(buildRun.log)].op = "close"
           /\ Cardinality(at("shutdown")) = 1 /\ Cardinality(at("close")) = 1

\* the preBuildHook returned 0, the requested packages were cooked, the cook
\* of the provided dependencies raised BuildError: the state was saved, the
\* postBuildHook got "fail" and the results so far, and commonBuildDevelop
\* was left with executor and loop closed
C27_Witness ==
    /\ Done(buildRun)
    /\ buildRun.hooks.preBuildHook = "~/hook.sh"
    /\ buildRun.hooks.postBuildHook = "~/hook.sh"
    /\ buildRun.exit = "0"
    /\ buildRun.cooked = 1
    /\ buildRun.exc = "BuildError"
    /\ Len(buildRun.results) = 2
    /\ \E i \in at("postBuildHook") : buildRun.log[i].args = <<"fail">> \o buildRun.results

====
